---- MODULE Spec2Model ----
(***************************************************************************)
(* Model of DummyBlueforsSlave (src/dummpy_bluefors_2.py): the channel     *)
(* state, the derived sensors and pressures, the three in-memory logs, the *)
(* event watermark, and the operations set_channel, the toggles and        *)
(* generate_alert_messages; of the command controller                     *)
(* (src/backend/controllers/command_controller.py) and of the registry,    *)
(* the polls and the alerts of src/backend/data_acquisition/               *)
(* fridge_reader.py.                                                       *)
(*                                                                         *)
(* Time.  datetime.now() has microsecond resolution; the model's clock     *)
(* counts ticks, TicksPerSec of them to a second.  strftime("%d-%m-%y") +  *)
(* strftime("%H:%M:%S") keep whole seconds only (FormatTime); strptime     *)
(* gives back the whole second with microsecond 0 (ParseTime).  The wall   *)
(* clock is taken to be non-decreasing.                                    *)
(*                                                                         *)
(* Numbers.  Temperatures are integers in tenths (300.0 K = 3000); their   *)
(* "%.3f" log form is in thousandths.  A pressure is a double [m, e]; its   *)
(* "%.3e" log form is [mant, exp], standing for mant/1000 * 10^exp mbar.   *)
(*                                                                         *)
(* Files.  With logs_path given, each _log_* appends its row to memory and *)
(* then writes it to a file; a write may raise OSError (FailPoints).       *)
(*                                                                         *)
(* Specifications.  Spec: an instance with or without files, under any     *)
(* calls.  CallSpec: the same on shorter histories.  MemSpec: the instance *)
(* without files.  ScanSpec: generate_alert_messages on given logs.        *)
(* RenderSpec: Spec with generate_state_message among the calls.           *)
(* PumpSpec: the pumps of an instance without files, on longer histories.  *)
(* ToggleSpec: the toggles alone.  SensorSpec: the compressor and the      *)
(* pulse tube, long enough for the temperatures to reach their limits.     *)
(* CommandSpec: execute_command on the two registered fridges.             *)
(* ReaderSpec: the registered fridges under set_channel calls, polls and   *)
(* pops.  RaceSpec: one instance, the steps of a set_channel call and of a *)
(* scan in any order.  ChannelSpec: a channel of every kind under          *)
(* set_channel.  DerivedSpec: the channels with a derivation.              *)
(* IsolationSpec: the registered fridges under commands and scans.         *)
(*                                                                         *)
(* Doubles.  The float operations applied to pressures are computed once,  *)
(* per operand, into the table floats; the actions look them up there.     *)
(***************************************************************************)
EXTENDS Integers, Sequences, FiniteSets, TLC

\* ---------------------------------------------------------------- bounds
\* Ticks of the model clock per second (datetime: 10^6 microseconds).
TicksPerSec == 2
\* The clock stops advancing at this tick.
MaxClock == 2
\* The state log is capped at this many entries (the code keeps no cap).
MaxLog == 3
\* The cap on the state log in CallSpec, under which the claims about one call
\* (what a single set_channel does to the state it is called in) are checked.
MaxCallLog == 2
\* The cap on the state log in PumpSpec, under which the pumps are switched
\* often enough for the rounding of the pressures to show.
MaxPumpLog == 5

\* The caps on the state log in SensorSpec: the compressor is switched on
\* histories of MaxWaterLog entries (five steps down from 20.0 reach the floor
\* of the water temperatures, the sixth is held by it), the pulse tube on
\* histories of MaxSensorLog entries (fifteen more toggles take the mixing
\* chamber from 300.0 to its floor).
MaxWaterLog == 7
MaxSensorLog == 22

\* ------------------------------------------------------- static data
\* self._state_keys_order = list(self.state.keys())
StateKeysOrder ==
  << "scroll1", "scroll2", "turbo1", "compressor", "pulsetube", "ext",
     "v5", "v6", "v7", "v9", "v13", "hs-still", "hs-mc" >>

Channels == { StateKeysOrder[i] : i \in 1..Len(StateKeysOrder) }

ValidValues == { "0", "1", "2" }

\* EVENT_MARKERS: frozenset of (channel, value) pairs -> label
EVENT_MARKERS ==
  { [key |-> { <<"hs-still", "1">>, <<"hs-mc", "1">>, <<"pulsetube", "1">> },
     label |-> "Cooldown script started"],
    [key |-> { <<"ext", "0">>, <<"pulsetube", "0">>, <<"v13", "1">>,
               <<"v9", "0">>, <<"turbo1", "0">> },
     label |-> "Warmup script started"],
    [key |-> { <<"pulsetube", "0">>, <<"v13", "1">>, <<"v9", "0">>,
               <<"turbo1", "0">> },
     label |-> "Warmup script started"],
    [key |-> { <<"pulsetube", "0">> }, label |-> "Pulsetube manual stop"],
    [key |-> { <<"pulsetube", "1">> }, label |-> "Pulsetube manual start"],
    [key |-> { <<"compressor", "1">>, <<"v9", "1">>, <<"v7", "1">>,
               <<"v6", "1">>, <<"v5", "1">> },
     label |-> "Condensing script started"] }

\* ------------------------------------------------------------ inputs
\* Channel names a caller passes: a representative of every kind of channel
\* (pump, turbo, compressor, pulse tube, valve, heat switch) and one name
\* that is no channel.
CmdChannels ==
  { "scroll1", "turbo1", "compressor", "pulsetube", "v5", "hs-mc", "v99" }

\* Channel names a caller passes to set_channel on an instance that mirrors
\* its logs to files (the pulse tube is driven by toggle_pulsetube there).
FileCmdChannels == { "turbo1", "v99" }

\* Names a caller passes to toggle_valve and toggle_heat_switch: a valve, a
\* heat switch, a channel that is neither, and a name that is no channel.
ToggleNames == { "v5", "hs-mc", "pulsetube", "v99" }

\* Values a caller passes: int or str (value (int or str) in the docstring).
IntVal(n) == [type |-> "int", int |-> n, str |-> ""]
StrVal(s) == [type |-> "str", int |-> 0, str |-> s]
CmdValues == { IntVal(0), IntVal(1), IntVal(3), StrVal("1"), StrVal("2") }

VARIABLES
  state,                  \* self.state
  sensors,                \* self.sensors
  pressures,              \* self.pressures
  state_log,              \* self._state_log
  status_log,             \* self._status_log
  pressure_log,           \* self._pressure_log
  last_event_check_time,  \* self._last_event_check_time (ticks)
  use_files,              \* self._use_files
  clock,                  \* the wall clock datetime.now() reads (ticks)
  floats,                 \* the float operations on pressures, by operand
  ret,                    \* outcome of the last call: exception and return value
  reported,               \* reported[i]: how many scans reported the transition
                          \* into state_log[i] (history, capped at 2)
  focus,                  \* fridge id of the instance described above
  parked,                 \* the other entries of _fridges: id -> instance
  command_log,            \* records written to the "command_log" measurement
  cmd_ret,                \* what the last execute_command returned
  latest_data,            \* fridge_reader._latest_data: id -> snapshot
  latest_alerts,          \* fridge_reader._latest_alerts: id -> labels
  pop_ret,                \* what the last pop_all_alerts returned
  yielded,                \* yielded[id]: the labels generate_alert_messages
                          \* returned to the polls, in order (history)
  popped,                 \* popped[id]: the labels pop_all_alerts returned,
                          \* in order (history)
  polled,                 \* a poll ran since the last pop_all_alerts (history)
  unpopped,               \* ids polled since the last pop that covered them
  running                 \* the set_channel call and the scan in progress,
                          \* when their steps are taken one at a time

vars ==
  << state, sensors, pressures, state_log, status_log, pressure_log,
     last_event_check_time, use_files, clock, floats, ret, reported,
     focus, parked, command_log, cmd_ret, latest_data, latest_alerts,
     pop_ret, yielded, popped, polled, unpopped, running >>

\* What the instance holds (everything but the clock and the observations).
instance ==
  << state, sensors, pressures, state_log, status_log, pressure_log,
     last_event_check_time, use_files >>

\* What the controller and the registry of fridge_reader hold.
controller == << focus, parked, command_log, cmd_ret >>

\* What fridge_reader caches, with the history of its polls and pops.
reader ==
  << latest_data, latest_alerts, pop_ret, yielded, popped, polled, unpopped >>

\* ------------------------------------------------------ conversions
\* str(value)
IntToStr(n) ==
  CASE n = 0 -> "0" [] n = 1 -> "1" [] n = 2 -> "2" [] n = 3 -> "3"
    [] OTHER -> "?"

Str(value) == IF value.type = "int" THEN IntToStr(value.int) ELSE value.str

\* timestamp.strftime("%d-%m-%y"), timestamp.strftime("%H:%M:%S")
FormatTime(t) == t \div TicksPerSec

\* datetime.strptime(date + " " + time, "%d-%m-%y %H:%M:%S")
ParseTime(s) == s * TicksPerSec

\* f"{value:.3f}" of a value held in tenths: thousandths
FormatF3(x) == x * 100

Max(a, b) == IF a >= b THEN a ELSE b
Min(a, b) == IF a <= b THEN a ELSE b

\* ---------------------------------------------------- float arithmetic
\* A pressure is a Python float, an IEEE-754 double: m * 2^e with
\* 2^52 <= m < 2^53.  The mantissa m is held as limbs of 15 bits, the most
\* significant first.
Limb == 2^15

\* Bits of the mantissa of a double.
MantBits == 53

\* n * k for a limb sequence n and a small k
RECURSIVE MulSmall(_, _, _)
MulSmall(n, k, carry) ==
  IF n = << >> THEN (IF carry = 0 THEN << >> ELSE << carry >>)
  ELSE LET t == n[Len(n)] * k + carry
       IN  MulSmall(SubSeq(n, 1, Len(n) - 1), k, t \div Limb) \o << t % Limb >>

\* n divided by a small d, from the remainder r of the limbs before: quotient
\* and remainder
RECURSIVE DivSmall(_, _, _)
DivSmall(n, d, r) ==
  IF n = << >> THEN [q |-> << >>, r |-> r]
  ELSE LET t == r * Limb + n[1]
           rest == DivSmall(Tail(n), d, t % d)
       IN  [q |-> << t \div d >> \o rest.q, r |-> rest.r]

\* n without its leading zero limbs
RECURSIVE Strip(_)
Strip(n) == IF n # << >> /\ n[1] = 0 THEN Strip(Tail(n)) ELSE n

\* a < b for two stripped limb sequences
RECURSIVE LimbsLess(_, _)
LimbsLess(a, b) ==
  IF Len(a) # Len(b) THEN Len(a) < Len(b)
  ELSE IF a = << >> THEN FALSE
  ELSE IF a[1] # b[1] THEN a[1] < b[1]
  ELSE LimbsLess(Tail(a), Tail(b))

\* 2^k as limbs
Pow2(k) == << 2^(k % 15) >> \o [ i \in 1..(k \div 15) |-> 0 ]

\* n + 1
RECURSIVE Inc(_)
Inc(n) ==
  IF n = << >> THEN << 1 >>
  ELSE IF n[Len(n)] + 1 < Limb THEN [n EXCEPT ![Len(n)] = n[Len(n)] + 1]
  ELSE Inc(SubSeq(n, 1, Len(n) - 1)) \o << 0 >>

IsOdd(n) == n # << >> /\ n[Len(n)] % 2 = 1

\* floor(n / 2^s) for any s, with whether a 1 bit was dropped
RECURSIVE ShiftRight(_, _, _)
ShiftRight(n, s, sticky) ==
  IF s = 0 THEN [q |-> n, sticky |-> sticky]
  ELSE LET step == IF s >= 15 THEN 15 ELSE s
           d == DivSmall(n, 2^step, 0)
       IN  ShiftRight(d.q, s - step, sticky \/ d.r # 0)

\* n / 2^s rounded to the nearest integer, ties to even; sticky says that the
\* exact value lies above n
RoundShift(n, s, sticky) ==
  IF s = 0 THEN Strip(n)
  ELSE LET low == ShiftRight(n, s - 1, sticky)
           last == DivSmall(low.q, 2, 0)
           up == last.r = 1 /\ (low.sticky \/ IsOdd(last.q))
       IN  Strip(IF up THEN Inc(last.q) ELSE last.q)

\* The number of bits of a stripped n above MantBits (0 when it has no more)
RECURSIVE ExtraBits(_, _)
ExtraBits(n, t) ==
  IF LimbsLess(n, Pow2(MantBits + t)) THEN t ELSE ExtraBits(n, t + 1)

\* The double nearest to n * 2^e (exact value above n when sticky), for n of
\* MantBits bits or more: round to nearest, ties to even
ToDouble(n, e, sticky) ==
  LET t == ExtraBits(Strip(n), 0)
      m == RoundShift(n, t, sticky)
  IN  IF LimbsLess(m, Pow2(MantBits)) THEN [m |-> m, e |-> e + t]
      ELSE [m |-> Pow2(MantBits - 1), e |-> e + t + 1]

\* p / 10 in double arithmetic
FloatDiv10(p) ==
  LET d == DivSmall(MulSmall(p.m, 2^6, 0), 10, 0)
  IN  ToDouble(d.q, p.e - 6, d.r # 0)

\* p * 10 in double arithmetic
FloatMul10(p) == ToDouble(MulSmall(p.m, 10, 0), p.e, FALSE)

\* The float literal 1.0e-3: the double nearest to 1/1000
Float1em3 ==
  LET d == DivSmall(Pow2(MantBits + 12), 1000, 0)
  IN  ToDouble(d.q, -(MantBits + 12), d.r # 0)

\* n * 10^k
RECURSIVE MulPow10(_, _)
MulPow10(n, k) == IF k = 0 THEN n ELSE MulPow10(MulSmall(n, 10, 0), k - 1)

\* The integer a limb sequence of at most two limbs stands for
LimbsToInt(n) ==
  IF n = << >> THEN 0 ELSE IF Len(n) = 1 THEN n[1] ELSE n[1] * Limb + n[2]

\* p * 10^k rounded to the nearest integer (for p.e <= 0 and k >= 0)
ScaledDigits(p, k) == LimbsToInt(RoundShift(MulPow10(p.m, k), -p.e, FALSE))

\* 10^x <= p, for a double p below 2^53
AtLeastPow10(p, x) ==
  IF x <= 0 THEN ~LimbsLess(Strip(MulPow10(p.m, -x)), Pow2(-p.e))
  ELSE ~LimbsLess(Strip(p.m), Strip(MulPow10(Pow2(-p.e), x)))

\* floor(log10(p)), searched downward from x
RECURSIVE DecimalExponent(_, _)
DecimalExponent(p, x) ==
  IF AtLeastPow10(p, x) THEN x ELSE DecimalExponent(p, x - 1)

\* f"{p:.3e}": four significant digits and the decimal exponent, rounded from
\* the exact value of the double (for 0 < p < 1e4)
FloatFormatE3(p) ==
  LET x == DecimalExponent(p, 3)
      d == ScaledDigits(p, 3 - x)
  IN  IF d >= 10000 THEN [mant |-> 1000, exp |-> x + 1]
      ELSE [mant |-> d, exp |-> x]

\* floor(n / 10^k), with whether anything was dropped
RECURSIVE DivPow10(_, _, _)
DivPow10(n, k, sticky) ==
  IF k = 0 THEN [q |-> n, sticky |-> sticky]
  ELSE LET d == DivSmall(n, 10, 0)
       IN  DivPow10(d.q, k - 1, sticky \/ d.r # 0)

\* The float 0.0
FloatZero == [m |-> << >>, e |-> 0]

\* float(text) of a "%.3e" text: the double nearest to mant * 10^(exp - 3),
\* from mant * 2^120 (eight limbs below mant)
FloatParseE3(text) ==
  LET n == << text.mant >> \o [ i \in 1..8 |-> 0 ]
      k == text.exp - 3
  IN  IF text.mant = 0 THEN FloatZero
      ELSE IF k >= 0 THEN ToDouble(MulPow10(n, k), -120, FALSE)
      ELSE LET d == DivPow10(n, -k, FALSE)
           IN  ToDouble(d.q, -120, d.sticky)

\* Every float some sequence of at most n divisions and multiplications by 10
\* makes of the floats in S
RECURSIVE FloatsWithin(_, _)
FloatsWithin(S, n) ==
  IF n = 0 THEN S
  ELSE FloatsWithin(S \cup { FloatDiv10(p) : p \in S }
                      \cup { FloatMul10(p) : p \in S }, n - 1)

\* p/10, p*10, f"{p:.3e}" and float(f"{p:.3e}") for every pressure that
\* histories of the model's length reach.  The variable floats holds this
\* table from construction on, so that the arithmetic is evaluated once.
FloatTable ==
  [ p \in FloatsWithin({ Float1em3 }, Max(MaxLog, MaxPumpLog)) |->
      [ div10 |-> FloatDiv10(p), mul10 |-> FloatMul10(p),
        e3 |-> FloatFormatE3(p),
        parsed |-> FloatParseE3(FloatFormatE3(p)) ] ]

\* f"{p:.3e}"
FormatE3(p) == floats[p].e3

\* ------------------------------------------------------------- rows
\* Mutant of StateRow: the row is built from self.state as it was before the
\* update (the snapshot taken before the assignment).
StateRow_Stale(now, st) ==
  [ time |-> FormatTime(now),
    id |-> "",
    items |-> [ i \in 1..Len(StateKeysOrder) |->
                  << StateKeysOrder[i], state[StateKeysOrder[i]] >> ] ]

\* Mutant of StateRow: the keys are written last to first
\* (reversed(self._state_keys_order)).
StateRow_Reversed(now, st) ==
  [ time |-> FormatTime(now),
    id |-> "",
    items |-> [ i \in 1..Len(StateKeysOrder) |->
                  LET key == StateKeysOrder[Len(StateKeysOrder) + 1 - i]
                  IN  << key, st[key] >> ] ]

\* [date_str, time_str, '', key1, val1, ...]
StateRow(now, st) ==
  [ time |-> FormatTime(now),
    id |-> "",
    items |-> [ i \in 1..Len(StateKeysOrder) |->
                  << StateKeysOrder[i], st[StateKeysOrder[i]] >> ] ]

SensorKeysOrder ==
  << "mix_chamber", "still", "platform", "cptempwi", "cptempwo",
     "tc400setspdatt" >>

\* isinstance(value, float): every sensor but the int tc400setspdatt
IsFloat(key) == key # "tc400setspdatt"

\* [date_str, time_str, key1, val1, ...]
StatusRow(now, sn) ==
  [ time |-> FormatTime(now),
    items |-> [ i \in 1..Len(SensorKeysOrder) |->
                  LET key == SensorKeysOrder[i] IN
                  << key, IF IsFloat(key) THEN FormatF3(sn[key]) ELSE sn[key] >> ] ]

\* [date_str, time_str, p1..p6], each f"{p:.3e}"; a missing one is f"{0.0:.3e}"
PressureRow(now, ps) ==
  [ time |-> FormatTime(now),
    p |-> [ i \in 1..6 |->
              IF i <= Len(ps) THEN FormatE3(ps[i])
              ELSE [mant |-> 0, exp |-> 0] ] ]

\* ------------------------------------------------------ construction
InitState == [ c \in Channels |-> "0" ]

InitSensors ==
  [ mix_chamber |-> 3000, still |-> 3000, platform |-> 3000,
    cptempwi |-> 200, cptempwo |-> 200, tc400setspdatt |-> 0 ]

InitPressures == [ i \in 1..6 |-> Float1em3 ]

\* What the last call gave back: kind is "None" (a plain return), "list"
\* (generate_alert_messages, with the list in events) or the name of the
\* exception raised; "__init__" after construction.
Returned(kind, events) == [kind |-> kind, events |-> events]

\* Mutant of InstanceInit: construction leaves the status and pressure logs
\* empty (the two _log_* calls of __init__ are not made).
InstanceInit_Unseeded ==
  /\ clock \in 0..(TicksPerSec - 1)
  /\ floats = FloatTable
  /\ use_files \in BOOLEAN
  /\ state = InitState
  /\ sensors = InitSensors
  /\ pressures = InitPressures
  /\ state_log = << StateRow(clock, InitState) >>
  /\ status_log = << >>
  /\ pressure_log = << >>
  /\ last_event_check_time = clock
  /\ ret = Returned("__init__", <<>>)
  /\ reported = << 0 >>

\* __init__: the instance is seeded with one entry in each log, and the
\* watermark is set to now (with its microseconds).
InstanceInit ==
  /\ clock \in 0..(TicksPerSec - 1)
  /\ floats = FloatTable
  /\ use_files \in BOOLEAN
  /\ state = InitState
  /\ sensors = InitSensors
  /\ pressures = InitPressures
  /\ state_log = << StateRow(clock, InitState) >>
  /\ status_log = << StatusRow(clock, InitSensors) >>
  /\ pressure_log = << PressureRow(clock, InitPressures) >>
  /\ last_event_check_time = clock
  /\ ret = Returned("__init__", <<>>)
  /\ reported = << 0 >>

\* fridge_reader before any poll: _latest_data = {} and _latest_alerts =
\* defaultdict(list), nothing polled and nothing popped.
NoReader ==
  /\ latest_data = << >>
  /\ latest_alerts = << >>
  /\ pop_ret = << >>
  /\ yielded = [ id \in { "fridge_1", "fridge_2" } |-> << >> ]
  /\ popped = [ id \in { "fridge_1", "fridge_2" } |-> << >> ]
  /\ polled = FALSE
  /\ unpopped = { }

\* No call in progress: set_channel is not running (at = "-") and no scan has
\* fixed its range (n = 0).
Idle ==
  [ set |-> [at |-> "-", channel |-> "", val_str |-> "", now |-> 0],
    scan |-> [at |-> "-", n |-> 0] ]

\* A lone instance: nothing else is registered and no command was executed.
NoController ==
  /\ focus = "fridge_1"
  /\ parked = << >>
  /\ command_log = << >>
  /\ cmd_ret = "-"
  /\ NoReader
  /\ running = Idle

\* An instance constructed on its own, with or without log files.
Init == InstanceInit /\ NoController

\* The wall clock advances.
Tick ==
  /\ clock < MaxClock
  /\ clock' = clock + 1
  /\ UNCHANGED << instance, floats, ret, reported, controller, reader,
                  running >>

\* ------------------------------------------------------- set_channel
\* Mutant of SensorsAfter: the turbo switched on is marked at speed
\* (tc400setspdatt = 1 for 0 in the val_str == "1" branch).
SensorsAfter_AtSpeed(channel, val_str, sn) ==
  IF channel = "pulsetube" THEN
    IF val_str = "1"
    THEN [sn EXCEPT !.mix_chamber = Max(1, sn.mix_chamber - 500),
                    !.still = Max(10, sn.still - 500)]
    ELSE [sn EXCEPT !.mix_chamber = Min(3000, sn.mix_chamber + 100),
                    !.still = Min(3000, sn.still + 100)]
  ELSE IF channel = "compressor" THEN
    IF val_str = "0"
    THEN [sn EXCEPT !.cptempwi = Min(250, sn.cptempwi + 10),
                    !.cptempwo = Min(250, sn.cptempwo + 10)]
    ELSE [sn EXCEPT !.cptempwi = Max(150, sn.cptempwi - 10),
                    !.cptempwo = Max(150, sn.cptempwo - 10)]
  ELSE IF channel = "turbo1" THEN
    [sn EXCEPT !.tc400setspdatt = IF val_str = "1" THEN 1 ELSE 0]
  ELSE sn

\* Mutant of SensorsAfter: the compressor set to "2" counts as switched off
\* (val_str != "1" for val_str == "0").
SensorsAfter_TransitionalOff(channel, val_str, sn) ==
  IF channel = "pulsetube" THEN
    IF val_str = "1"
    THEN [sn EXCEPT !.mix_chamber = Max(1, sn.mix_chamber - 500),
                    !.still = Max(10, sn.still - 500)]
    ELSE [sn EXCEPT !.mix_chamber = Min(3000, sn.mix_chamber + 100),
                    !.still = Min(3000, sn.still + 100)]
  ELSE IF channel = "compressor" THEN
    IF val_str # "1"
    THEN [sn EXCEPT !.cptempwi = Min(250, sn.cptempwi + 10),
                    !.cptempwo = Min(250, sn.cptempwo + 10)]
    ELSE [sn EXCEPT !.cptempwi = Max(150, sn.cptempwi - 10),
                    !.cptempwo = Max(150, sn.cptempwo - 10)]
  ELSE IF channel = "turbo1" THEN
    [sn EXCEPT !.tc400setspdatt = 0]
  ELSE sn

\* Mutant of SensorsAfter: the temperatures are not clamped (T - 50.0 for
\* max(0.1, T - 50.0), and so on).
SensorsAfter_Unclamped(channel, val_str, sn) ==
  IF channel = "pulsetube" THEN
    IF val_str = "1"
    THEN [sn EXCEPT !.mix_chamber = sn.mix_chamber - 500,
                    !.still = sn.still - 500]
    ELSE [sn EXCEPT !.mix_chamber = sn.mix_chamber + 100,
                    !.still = sn.still + 100]
  ELSE IF channel = "compressor" THEN
    IF val_str = "0"
    THEN [sn EXCEPT !.cptempwi = sn.cptempwi + 10,
                    !.cptempwo = sn.cptempwo + 10]
    ELSE [sn EXCEPT !.cptempwi = sn.cptempwi - 10,
                    !.cptempwo = sn.cptempwo - 10]
  ELSE IF channel = "turbo1" THEN
    [sn EXCEPT !.tc400setspdatt = 0]
  ELSE sn

\* pulsetube / compressor / turbo1 branches of set_channel (sensor part)
SensorsAfter(channel, val_str, sn) ==
  IF channel = "pulsetube" THEN
    IF val_str = "1"
    THEN [sn EXCEPT !.mix_chamber = Max(1, sn.mix_chamber - 500),
                    !.still = Max(10, sn.still - 500)]
    ELSE [sn EXCEPT !.mix_chamber = Min(3000, sn.mix_chamber + 100),
                    !.still = Min(3000, sn.still + 100)]
  ELSE IF channel = "compressor" THEN
    IF val_str = "0"
    THEN [sn EXCEPT !.cptempwi = Min(250, sn.cptempwi + 10),
                    !.cptempwo = Min(250, sn.cptempwo + 10)]
    ELSE [sn EXCEPT !.cptempwi = Max(150, sn.cptempwi - 10),
                    !.cptempwo = Max(150, sn.cptempwo - 10)]
  ELSE IF channel = "turbo1" THEN
    [sn EXCEPT !.tc400setspdatt = 0]
  ELSE sn

\* Mutant of Div10: the pressure is left as it is (p for p/10).
Div10_Unchanged(p) == p

\* p/10 if p > 0 else p
Div10(p) == IF p.m # << >> THEN floats[p].div10 ELSE p

\* Mutant of Mul10: the way back multiplies by 100.
Mul10_Hundred(p) == FloatMul10(floats[p].mul10)

\* p*10
Mul10(p) == floats[p].mul10

\* Mutant of PressuresAfter: the valve v5 moves the pressures as a pump does.
PressuresAfter_Valve(channel, val_str, ps) ==
  IF channel \in { "scroll1", "scroll2", "turbo1", "v5" } THEN
    IF val_str = "1"
    THEN [ i \in DOMAIN ps |-> Div10(ps[i]) ]
    ELSE [ i \in DOMAIN ps |-> Mul10(ps[i]) ]
  ELSE ps

\* scroll1 / scroll2 / turbo1 branch of set_channel (pressure part)
PressuresAfter(channel, val_str, ps) ==
  IF channel \in { "scroll1", "scroll2", "turbo1" } THEN
    IF val_str = "1"
    THEN [ i \in DOMAIN ps |-> Div10(ps[i]) ]
    ELSE [ i \in DOMAIN ps |-> Mul10(ps[i]) ]
  ELSE ps

\* Where a mirrored write (os.makedirs, open, writerow) may raise OSError:
\* in _log_state, _log_status or _log_pressures; nowhere without files.
FailPoints ==
  IF use_files THEN { "none", "state", "status", "pressure" } ELSE { "none" }

\* if channel not in self.state: raise KeyError
UnknownChannel(channel) == channel \notin DOMAIN state

\* Mutant of InvalidValue: the range check lets "3" through.
InvalidValue_Lax(val_str) == val_str \notin (ValidValues \cup { "3" })

\* if val_str not in ("0", "1", "2"): raise ValueError
InvalidValue(val_str) == val_str \notin ValidValues

\* Mutant of NoChange: the early return is never taken.
NoChange_Never(channel, val_str) == FALSE

\* if self.state[channel] == val_str: return
NoChange(channel, val_str) == state[channel] = val_str

\* A call that raises before touching anything.
Rejected(exc) ==
  /\ ret' = Returned(exc, <<>>)
  /\ UNCHANGED << instance, clock, floats, reported >>

\* Mutant of Commit: the new row takes the place of the newest entry of the
\* state log (self._state_log[-1] = entry for self._state_log.append(entry)).
Commit_Overwrite(channel, val_str, fp) ==
  LET state1 == [state EXCEPT ![channel] = val_str]
      sensors1 == SensorsAfter(channel, val_str, sensors)
      now == clock
      pressures1 == PressuresAfter(channel, val_str, pressures)
  IN  /\ state' = state1
      /\ sensors' = sensors1
      /\ state_log' = [state_log EXCEPT ![Len(state_log)] = StateRow(now, state1)]
      /\ reported' = reported
      /\ status_log' = Append(status_log, StatusRow(now, sensors1))
      /\ pressures' = pressures1
      /\ pressure_log' = Append(pressure_log, PressureRow(now, pressures1))
      /\ ret' = Returned("None", <<>>)
      /\ UNCHANGED << last_event_check_time, use_files, clock, floats >>

\* The accepted part of set_channel, lines 445-484.  fp is where a mirrored
\* write raises; each _log_* appends to memory before it writes the file.
Commit(channel, val_str, fp) ==
  LET state1 == [state EXCEPT ![channel] = val_str]
      sensors1 == SensorsAfter(channel, val_str, sensors)
      now == clock
      pressures1 == PressuresAfter(channel, val_str, pressures)
  IN  /\ state' = state1
      /\ sensors' = sensors1
      /\ state_log' = Append(state_log, StateRow(now, state1))
      /\ reported' = Append(reported, 0)
      /\ status_log' = IF fp = "state" THEN status_log
                       ELSE Append(status_log, StatusRow(now, sensors1))
      /\ pressures' = IF fp \in { "state", "status" } THEN pressures
                      ELSE pressures1
      /\ pressure_log' = IF fp \in { "state", "status" } THEN pressure_log
                         ELSE Append(pressure_log, PressureRow(now, pressures1))
      /\ ret' = Returned(IF fp = "none" THEN "None" ELSE "OSError", <<>>)
      /\ UNCHANGED << last_event_check_time, use_files, clock, floats >>

\* set_channel(channel, value)
set_channel(channel, value) ==
  LET val_str == Str(value) IN
  IF UnknownChannel(channel) THEN Rejected("KeyError")
  ELSE IF InvalidValue(val_str) THEN Rejected("ValueError")
  ELSE IF NoChange(channel, val_str)
       THEN /\ ret' = Returned("None", <<>>)
            /\ UNCHANGED << instance, clock, floats, reported >>
       ELSE \E fp \in FailPoints : Commit(channel, val_str, fp)

SetChannel(names) == \E channel \in names, value \in CmdValues :
                       set_channel(channel, value)

\* ------------------------------------------------------------ toggles
\* Mutant of ToggleNew: only '1' counts as on ('0' if current == '1' else '1').
ToggleNew_OffBaseline(current) == IF current = "1" THEN "0" ELSE "1"

\* new = '1' if current == '0' else '0'
ToggleNew(current) == IF current = "0" THEN "1" ELSE "0"

\* self.state.get(name, '0')
StateGet(name, default) == IF name \in DOMAIN state THEN state[name] ELSE default

toggle_pulsetube ==
  set_channel("pulsetube",
                 StrVal(ToggleNew(StateGet("pulsetube", "0"))))

toggle_compressor ==
  set_channel("compressor",
                 StrVal(ToggleNew(StateGet("compressor", "0"))))

toggle_turbo ==
  set_channel("turbo1",
                 StrVal(ToggleNew(StateGet("turbo1", "0"))))

\* Mutant of StartsWithV: the prefix test lets every name through.
StartsWithV_Any(name) == TRUE

\* valve_name.startswith('v'), over the names callers pass
StartsWithV(name) == name \in { "v5", "v6", "v7", "v9", "v13", "v99" }

\* hs_name.startswith('hs'), over the names callers pass
StartsWithHs(name) == name \in { "hs-still", "hs-mc" }

toggle_valve(valve_name) ==
  IF valve_name \notin DOMAIN state \/ ~StartsWithV(valve_name)
  THEN Rejected("KeyError")
  ELSE set_channel(valve_name,
                      StrVal(ToggleNew(state[valve_name])))

toggle_heat_switch(hs_name) ==
  IF hs_name \notin DOMAIN state \/ ~StartsWithHs(hs_name)
  THEN Rejected("KeyError")
  ELSE set_channel(hs_name,
                      StrVal(ToggleNew(state[hs_name])))

Toggle ==
  \/ toggle_pulsetube
  \/ toggle_compressor
  \/ toggle_turbo
  \/ \E name \in ToggleNames : toggle_valve(name)
  \/ \E name \in ToggleNames : toggle_heat_switch(name)

\* ------------------------------------------- generate_alert_messages
\* dict_i / dict_prev: {row[j]: row[j+1] for j in range(3, len(row), 2)}
RowDict(row) == { row.items[j] : j \in 1..Len(row.items) }

\* dict_prev.get(k, None)
DictGet(dict, k) ==
  IF \E kv \in dict : kv[1] = k
  THEN (CHOOSE kv \in dict : kv[1] = k)[2]
  ELSE "None"

\* change = {k: dict_i[k] for k in dict_i if dict_i[k] != dict_prev.get(k, None)},
\* as frozenset(change.items())
ChangeKey(row_i, row_prev) ==
  { kv \in RowDict(row_i) : kv[2] # DictGet(RowDict(row_prev), kv[1]) }

\* Mutant of Lookup: a pattern matches when the diff contains it.
Lookup_Subset(change_key) ==
  IF \E m \in EVENT_MARKERS : m.key \subseteq change_key
  THEN << (CHOOSE m \in EVENT_MARKERS : m.key \subseteq change_key).label >>
  ELSE << >>

\* Mutant of Lookup: a pattern matches when it contains the diff.
Lookup_Superset(change_key) ==
  IF \E m \in EVENT_MARKERS : change_key \subseteq m.key
  THEN << (CHOOSE m \in EVENT_MARKERS : change_key \subseteq m.key).label >>
  ELSE << >>

\* if change_key in EVENT_MARKERS: EVENT_MARKERS[change_key]
Lookup(change_key) ==
  IF \E m \in EVENT_MARKERS : m.key = change_key
  THEN << (CHOOSE m \in EVENT_MARKERS : m.key = change_key).label >>
  ELSE << >>

\* Mutant of AlreadyChecked: < for <=.
AlreadyChecked_Strict(t_i, watermark) == t_i < watermark

\* if t_i <= self._last_event_check_time: break
AlreadyChecked(t_i, watermark) == t_i <= watermark

\* Mutant of ScanFrom: a match is put in front of the ones found before it
\* (events.insert(0, ...) for events.append(...)).
RECURSIVE ScanFrom_OldestFirst(_, _, _)
ScanFrom_OldestFirst(i, log, watermark) ==
  IF i = 0 THEN << >>
  ELSE IF AlreadyChecked(ParseTime(log[i].time), watermark) THEN << >>
  ELSE IF i = 1 THEN ScanFrom_OldestFirst(i - 1, log, watermark)
  ELSE LET hit == Lookup(ChangeKey(log[i], log[i - 1]))
       IN  ScanFrom_OldestFirst(i - 1, log, watermark)
             \o [ k \in 1..Len(hit) |-> [index |-> i, label |-> hit[k]] ]

\* The loop for i in range(len(log) - 1, -1, -1), from (1-based) index i down:
\* the matches it finds, newest first, each with the index of its later row.
RECURSIVE ScanFrom(_, _, _)
ScanFrom(i, log, watermark) ==
  IF i = 0 THEN << >>
  ELSE IF AlreadyChecked(ParseTime(log[i].time), watermark) THEN << >>
  ELSE IF i = 1 THEN ScanFrom(i - 1, log, watermark)
  ELSE LET hit == Lookup(ChangeKey(log[i], log[i - 1]))
       IN  [ k \in 1..Len(hit) |-> [index |-> i, label |-> hit[k]] ]
             \o ScanFrom(i - 1, log, watermark)

\* Mutant of NewWatermark: the watermark is left where it was.
NewWatermark_Kept(log, watermark) == watermark

\* self._last_event_check_time = strptime(latest row) if self._state_log
NewWatermark(log, watermark) ==
  IF log # << >> THEN ParseTime(log[Len(log)].time) ELSE watermark

generate_alert_messages ==
  LET found == ScanFrom(Len(state_log), state_log, last_event_check_time)
      events == [ k \in 1..Len(found) |-> found[k].label ]
  IN  /\ last_event_check_time' = NewWatermark(state_log, last_event_check_time)
      /\ ret' = Returned("list", events)
      /\ reported' =
           [ i \in DOMAIN reported |->
               IF \E k \in 1..Len(found) : found[k].index = i
               THEN Min(reported[i] + 1, 2) ELSE reported[i] ]
      /\ UNCHANGED << state, sensors, pressures, state_log, status_log,
                      pressure_log, use_files, clock, floats >>

\* ------------------------------------------------------ specification
\* Calls on an instance that keeps its logs in memory only (logs_path=None).
MemNext ==
  \/ SetChannel(CmdChannels)
  \/ Toggle
  \/ generate_alert_messages

\* Calls on an instance that mirrors its logs to files.
FileNext ==
  \/ SetChannel(FileCmdChannels)
  \/ toggle_pulsetube
  \/ generate_alert_messages

\* The step leaves the state log with n entries at most.
Within(n) == Len(state_log') <= n

\* The call is made on the instance itself, not through the controller.
Direct == UNCHANGED << controller, reader, running >>

Next ==
  \/ Tick
  \/ ~use_files /\ MemNext /\ Direct /\ Within(MaxLog)
  \/ use_files /\ FileNext /\ Direct /\ Within(MaxLog)

Spec == Init /\ [][Next]_vars

\* The same calls on shorter histories.
CallNext ==
  \/ Tick
  \/ ~use_files /\ MemNext /\ Direct /\ Within(MaxCallLog)
  \/ use_files /\ FileNext /\ Direct /\ Within(MaxCallLog)

CallSpec == Init /\ [][CallNext]_vars

\* The instance constructed with logs_path=None, as fridge_reader constructs it.
MemInit == Init /\ ~use_files

MemSpec ==
  MemInit /\ [][Tick \/ (MemNext /\ Direct /\ Within(MaxLog))]_vars

\* Channels of every kind, by the branch of set_channel they take: ext, a
\* valve and a heat switch (no branch), the pulse tube, the compressor, the
\* turbo and a scroll pump.
KindChannels ==
  { "ext", "v5", "hs-still", "pulsetube", "compressor", "turbo1", "scroll1" }

\* A channel of every kind of an instance without files, set by set_channel
\* (the clock stands still: the derivations do not read it).
ChannelNext == SetChannel(KindChannels) /\ Direct /\ Within(MaxLog)

ChannelSpec == MemInit /\ [][ChannelNext]_vars

\* The pumps of an instance without files, switched by set_channel and
\* toggle_turbo, on histories of MaxPumpLog entries.
PumpChannels == { "scroll1", "scroll2", "turbo1" }

PumpNext ==
  \/ SetChannel(PumpChannels) /\ Direct /\ Within(MaxPumpLog)
  \/ toggle_turbo /\ Direct /\ Within(MaxPumpLog)

PumpSpec == MemInit /\ [][PumpNext]_vars

\* An instance under the toggles alone.
ToggleSpec == Init /\ [][Toggle /\ Direct /\ Within(MaxLog)]_vars

\* The sensors of an instance without files: the compressor set on short
\* histories, the pulse tube toggled on long ones.
SensorNext ==
  \/ SetChannel({ "compressor" }) /\ Direct /\ Within(MaxWaterLog)
  \/ toggle_pulsetube /\ Direct /\ Within(MaxSensorLog)

SensorSpec == MemInit /\ [][SensorNext]_vars

\* The channels with a derivation, on an instance without files: the
\* compressor set on histories long enough for its floor to act, the pulse
\* tube and the pumps on short ones.
DerivedNext ==
  \/ SetChannel({ "compressor" }) /\ Direct /\ Within(MaxWaterLog)
  \/ SetChannel({ "pulsetube" } \cup PumpChannels) /\ Direct /\ Within(MaxLog)

DerivedSpec == MemInit /\ [][DerivedNext]_vars

\* --------------------------------- generate_alert_messages on given logs
\* generate_alert_messages is a function of the state log and the watermark.
\* ScanSpec applies it to logs of three rows (written at seconds 0, 1, 2)
\* whose two transitions are drawn from the pattern table's keys and their
\* near misses: a key with one pair missing, with one pair more, or with one
\* value different.
NearMissChannels == { "scroll2", "hs-mc" }

ScanDiffs ==
  LET keys == { m.key : m \in EVENT_MARKERS }
      chans(key) == { kv[1] : kv \in key }
  IN  keys
      \cup { key \ { kv } : key \in keys, kv \in Channels \X ValidValues }
      \cup { key \cup { << c, "1" >> } :
               key \in keys, c \in NearMissChannels }
      \cup { d \in { (key \ { kv }) \cup { << kv[1], w >> } :
                       key \in keys, kv \in Channels \X ValidValues,
                       w \in ValidValues } :
               \E key \in keys : chans(d) = chans(key) }

\* A diff is a set of (channel, value) pairs with one value for a channel.
IsDiff(d) == \A p \in d, q \in d : p[1] = q[1] => p = q

ApplyDiff(st, d) ==
  [ c \in Channels |->
      IF \E kv \in d : kv[1] = c THEN (CHOOSE kv \in d : kv[1] = c)[2]
      ELSE st[c] ]

ScanBaseStates == { [ c \in Channels |-> v ] : v \in { "0", "2" } }

ScanInit ==
  \E s0 \in ScanBaseStates :
  \E d1 \in { d \in ScanDiffs : IsDiff(d) } :
  \E d2 \in { d \in ScanDiffs : IsDiff(d) } :
    LET s1 == ApplyDiff(s0, d1)
        s2 == ApplyDiff(s1, d2)
        t(n) == ParseTime(n)
    IN  /\ use_files = FALSE
        /\ clock = t(2)
        /\ floats = FloatTable
        /\ state = s2
        /\ sensors = InitSensors
        /\ pressures = InitPressures
        /\ state_log = << StateRow(t(0), s0), StateRow(t(1), s1),
                          StateRow(t(2), s2) >>
        /\ status_log = [ i \in 1..3 |-> StatusRow(t(i - 1), InitSensors) ]
        /\ pressure_log = [ i \in 1..3 |-> PressureRow(t(i - 1), InitPressures) ]
        /\ last_event_check_time \in { t(0), t(1), t(2) }
        /\ ret = Returned("__init__", << >>)
        /\ reported = << 0, 0, 0 >>
        /\ NoController

ScanSpec == ScanInit /\ [][generate_alert_messages /\ Direct]_vars

\* ------------------------------------------------------------ queries
\* Mutant of get_state: a depth past the history gives the newest entry
\* (idx = -1 for idx = 0).
get_state_ClampNewest(depth) ==
  IF depth + 1 > Len(state_log) THEN state_log[Len(state_log)]
  ELSE state_log[Len(state_log) - depth]

\* get_state(depth): idx = -1 - depth; if abs(idx) > len(log): idx = 0
get_state(depth) ==
  IF depth + 1 > Len(state_log) THEN state_log[1]
  ELSE state_log[Len(state_log) - depth]

\* dict_state(depth): the channel values of the row and its parsed timestamp
dict_state(depth) ==
  LET raw_state == get_state(depth) IN
  [ channels |-> [ k \in { kv[1] : kv \in RowDict(raw_state) } |->
                     DictGet(RowDict(raw_state), k) ],
    datetime |-> ParseTime(raw_state.time) ]

\* A state-log row as the list the code keeps: [date, time, '', key1, val1,
\* ...]; RowAt(row, idx) is row[idx] (0-based; date and time are one field of
\* the model), RowLen(row) is len(row).
RowLen(row) == 3 + 2 * Len(row.items)

RowAt(row, idx) ==
  IF idx < 2 THEN row.time
  ELSE IF idx = 2 THEN row.id
  ELSE row.items[((idx - 3) \div 2) + 1][((idx - 3) % 2) + 1]

\* row[3::2]
Slice3Step2(row) ==
  [ n \in 1..((RowLen(row) - 3 + 1) \div 2) |-> RowAt(row, 3 + 2 * (n - 1)) ]

\* {k: v for k, v in zip(self._state_keys_order, values)}
ZipKeys(values) ==
  [ k \in { StateKeysOrder[i] : i \in 1..Min(Len(StateKeysOrder), Len(values)) } |->
      values[CHOOSE i \in 1..Len(StateKeysOrder) : StateKeysOrder[i] = k] ]

\* What get_last_state_change returns: the pairs of the dict other than
\* change_time, and change_time when the dict has one ({} is NoChangeFound).
NoChangeFound == [pairs |-> {}, has_time |-> FALSE, change_time |-> 0]

\* The loop while depth < len(self._state_log) - 1 of get_last_state_change
RECURSIVE LastChangeFrom(_)
LastChangeFrom(depth) ==
  IF ~(depth < Len(state_log) - 1) THEN NoChangeFound
  ELSE LET row == state_log[Len(state_log) - depth]
           last_state == ZipKeys(Slice3Step2(row))
           prev_state == ZipKeys(Slice3Step2(state_log[Len(state_log) - depth - 1]))
           change == { << k, last_state[k] >> : k \in
                         { k \in DOMAIN last_state :
                             \/ k \notin DOMAIN prev_state
                             \/ last_state[k] # prev_state[k] } }
       IN  IF change # {}
           THEN [pairs |-> change, has_time |-> TRUE,
                 change_time |-> ParseTime(row.time)]
           ELSE LastChangeFrom(depth + 1)

get_last_state_change ==
  IF Len(state_log) < 2 THEN NoChangeFound ELSE LastChangeFrom(0)

\* get_status(): the latest status row, or None when the log is empty
\* (some = FALSE stands for None).
get_status ==
  IF status_log = << >> THEN [some |-> FALSE, row |-> << >>]
  ELSE [some |-> TRUE, row |-> status_log[Len(status_log)]]

\* float(p) of a "%.3e" text: the double [m, e], kept with the four digits
\* and the exponent it was read from (mant, exp), by which readings are
\* compared and shown.
ParseE3(text) ==
  LET float == IF text.mant = 0 THEN FloatZero
               ELSE floats[CHOOSE p \in DOMAIN floats :
                             floats[p].e3 = text].parsed
  IN  [ m |-> float.m, e |-> float.e, mant |-> text.mant, exp |-> text.exp ]

\* get_last_pressures(): the readings of the latest pressure row as floats,
\* or None when the log is empty (some = FALSE stands for None).
get_last_pressures ==
  IF pressure_log = << >> THEN [some |-> FALSE, values |-> << >>]
  ELSE LET last_entry == pressure_log[Len(pressure_log)]
       IN  [some |-> TRUE,
            values |-> [ i \in 1..Len(last_entry.p) |-> ParseE3(last_entry.p[i]) ]]

\* ------------------------------------------- generate_state_message
\* on_off_symbol.get(state_val, white circle): the glyphs by name
on_off_symbol(state_val) ==
  CASE state_val = "0" -> "white circle"
    [] state_val = "1" -> "green circle"
    [] state_val = "2" -> "yellow circle"
    [] OTHER -> "white circle"

\* main_components and main_labels, zipped
MainComponents ==
  << << "scroll1", "scr1" >>, << "scroll2", "scr2" >>, << "turbo1", "tur1" >>,
     << "compressor", "comp" >>, << "pulsetube", "pt  " >> >>

\* status_dict: the key/value pairs of the status row
StatusDict(status_entry) ==
  IF status_entry.some
  THEN { status_entry.row.items[j] : j \in 1..Len(status_entry.row.items) }
  ELSE { }

HasKey(dict, k) == \E kv \in dict : kv[1] = k

\* float(status_dict["tc400setspdatt"]) == 1.0
TurboSpeed(status_dict) ==
  /\ HasKey(status_dict, "tc400setspdatt")
  /\ DictGet(status_dict, "tc400setspdatt") = 1

\* Mutant of TurboShown: the stored value is shown as it is.
TurboShown_Stored(state_val, status_dict) == state_val

\* if key == "turbo1": ... if turbo_on ^ turbo_speed: state_val = "2"
TurboShown(state_val, status_dict) ==
  IF (state_val = "1") # TurboSpeed(status_dict) THEN "2" ELSE state_val

\* Mutant of PulsetubeShown: the stored value is shown as it is.
PulsetubeShown_Stored(state_val, last_state) == state_val

\* if key == "pulsetube": ... if pt_on and not comp_on: state_val = "2"
PulsetubeShown(state_val, last_state) ==
  LET comp_on ==
        (IF "compressor" \in DOMAIN last_state THEN last_state["compressor"]
         ELSE "0") = "1"
      pt_on == state_val = "1"
  IN  IF pt_on /\ ~comp_on THEN "2" ELSE state_val

\* f"{float(text):.2f}" and f"{float(text):.1f}" of a "%.3f" text (thousandths):
\* hundredths and tenths
FormatF2(thousandths) == (thousandths + 5) \div 10
FormatF1(thousandths) == (thousandths + 50) \div 100

\* status_dict.get(key, self.sensors[key]), as thousandths
StatusOrSensor(status_dict, key) ==
  IF HasKey(status_dict, key) THEN DictGet(status_dict, key)
  ELSE sensors[key] * 100

\* a < b for two pressures (mant in 1000..9999, or 0)
PressureLess(a, b) ==
  IF a.mant = 0 \/ b.mant = 0 THEN a.mant = 0 /\ b.mant > 0
  ELSE a.exp < b.exp \/ (a.exp = b.exp /\ a.mant < b.mant)

\* min(pressures)
MinPressure(values) ==
  values[CHOOSE i \in 1..Len(values) :
           \A j \in 1..Len(values) : ~PressureLess(values[j], values[i])]

\* format_unicode_sci(number): "0" for 0; outside exponents -1..3 the
\* superscript table (str.maketrans with arguments of unequal length) raises
\* ValueError and the except branch returns str(number); otherwise "%.3f".
format_unicode_sci(number) ==
  IF number.mant = 0 THEN [form |-> "0", mant |-> 0, exp |-> 0]
  ELSE IF number.exp < -1 \/ number.exp > 3
       THEN [form |-> "str", mant |-> number.mant, exp |-> number.exp]
       ELSE [form |-> "%.3f", mant |-> number.mant, exp |-> number.exp]

\* The message generate_state_message builds: the five glyph-and-label parts
\* of the System Status line, the Temperatures line (hundredths), the
\* Compressor Water line (tenths; absent without cptempwo) and the Vacuum line
\* (absent without pressures).
StateMessage ==
  LET last_state == dict_state(0).channels
      status_dict == StatusDict(get_status)
      shown(key) ==
        LET state_val == IF key \in DOMAIN last_state THEN last_state[key] ELSE "0"
        IN  IF key = "turbo1" THEN TurboShown(state_val, status_dict)
            ELSE IF key = "pulsetube" THEN PulsetubeShown(state_val, last_state)
            ELSE state_val
      pressures_read == get_last_pressures
  IN  [ main |-> [ i \in 1..Len(MainComponents) |->
                     << on_off_symbol(shown(MainComponents[i][1])),
                        MainComponents[i][2] >> ],
        temps |-> << FormatF2(StatusOrSensor(status_dict, "mix_chamber")),
                     FormatF2(StatusOrSensor(status_dict, "still")),
                     FormatF2(StatusOrSensor(status_dict, "platform")) >>,
        water |-> IF HasKey(status_dict, "cptempwo")
                  THEN << FormatF1(DictGet(status_dict, "cptempwi")),
                          FormatF1(DictGet(status_dict, "cptempwo")) >>
                  ELSE << >>,
        vacuum |-> IF pressures_read.some /\ pressures_read.values # << >>
                   THEN << format_unicode_sci(MinPressure(pressures_read.values)) >>
                   ELSE << >> ]

\* Mutant of generate_state_message: the render also moves the watermark to
\* the newest row.
generate_state_message_Marking ==
  /\ ret' = Returned("str", << StateMessage >>)
  /\ last_event_check_time' = NewWatermark(state_log, last_event_check_time)
  /\ UNCHANGED << state, sensors, pressures, state_log, status_log,
                  pressure_log, use_files, clock, floats,
                  reported >>

\* generate_state_message(): returns the message and assigns nothing.
generate_state_message ==
  /\ ret' = Returned("str", << StateMessage >>)
  /\ UNCHANGED << instance, clock, floats, reported >>

\* An instance under any calls, generate_state_message among them.
RenderNext ==
  \/ Tick
  \/ ~use_files /\ MemNext /\ Direct /\ Within(MaxLog)
  \/ use_files /\ FileNext /\ Direct /\ Within(MaxLog)
  \/ generate_state_message /\ Direct

RenderSpec == Init /\ [][RenderNext]_vars

\* ------------------------------------------------- command controller
\* fridge_reader.init_fridges() registers two instances, both constructed
\* with logs_path=None.  The instance variables describe the fridge named by
\* focus; parked holds the other one.
FridgeIds == { "fridge_1", "fridge_2" }

\* Everything one instance holds, with the scans recorded for its rows.
Inst ==
  [ state |-> state, sensors |-> sensors, pressures |-> pressures,
    state_log |-> state_log, status_log |-> status_log,
    pressure_log |-> pressure_log,
    last_event_check_time |-> last_event_check_time,
    use_files |-> use_files, reported |-> reported ]

\* _fridges: fridge id -> instance
fridges == (focus :> Inst) @@ parked

\* The registry after init_fridges(): fridge_2 is constructed like fridge_1.
CommandInit ==
  /\ InstanceInit
  /\ ~use_files
  /\ focus = "fridge_1"
  /\ parked = ("fridge_2" :> Inst)
  /\ command_log = << >>
  /\ cmd_ret = "-"
  /\ NoReader
  /\ running = Idle

\* The next command addresses the other fridge: nothing in the program
\* changes, the instance variables now describe that fridge.
Switch ==
  \E id \in DOMAIN parked :
    LET f == parked[id]
    IN  /\ focus' = id
        /\ parked' = [ k \in (DOMAIN parked \ { id }) \cup { focus } |->
                         IF k = focus THEN Inst ELSE parked[k] ]
        /\ state' = f.state
        /\ sensors' = f.sensors
        /\ pressures' = f.pressures
        /\ state_log' = f.state_log
        /\ status_log' = f.status_log
        /\ pressure_log' = f.pressure_log
        /\ last_event_check_time' = f.last_event_check_time
        /\ use_files' = f.use_files
        /\ reported' = f.reported
        /\ UNCHANGED << clock, floats, ret, command_log, cmd_ret, reader,
                        running >>

\* None, and the keys execute_command reads from params.
NoneVal == [type |-> "None", int |-> 0, str |-> ""]
ParamKeys == { "valve_name", "heat_switch_name", "channel", "value" }

\* A params dict: params.get(key) for each key, None when the key is absent.
Params(valve_name, heat_switch_name, channel, value) ==
  [ valve_name |-> valve_name, heat_switch_name |-> heat_switch_name,
    channel |-> channel, value |-> value ]

NoParams == Params(NoneVal, NoneVal, NoneVal, NoneVal)

\* The calls made on the controller: each command with its parameters
\* present, absent, and naming what the fridge rejects; a command written
\* with blanks and capitals; the commands the dashboard sends (set_temp,
\* set_resist are not commands of the controller).
CommandCalls ==
  { [command |-> "toggle_compressor", params |-> NoParams],
    [command |-> "toggle_pulsetube", params |-> NoParams],
    [command |-> " Toggle_Turbo ", params |-> NoParams],
    [command |-> "toggle_valve",
     params |-> Params(StrVal("v5"), NoneVal, NoneVal, NoneVal)],
    [command |-> "toggle_valve",
     params |-> Params(StrVal("pulsetube"), NoneVal, NoneVal, NoneVal)],
    [command |-> "toggle_valve",
     params |-> Params(StrVal(""), NoneVal, NoneVal, NoneVal)],
    [command |-> "toggle_valve", params |-> NoParams],
    [command |-> "toggle_heat_switch",
     params |-> Params(NoneVal, StrVal("hs-mc"), NoneVal, NoneVal)],
    [command |-> "toggle_heat_switch", params |-> NoParams],
    [command |-> "set_channel",
     params |-> Params(NoneVal, NoneVal, StrVal("v5"), IntVal(1))],
    [command |-> "set_channel",
     params |-> Params(NoneVal, NoneVal, StrVal("v5"), IntVal(3))],
    [command |-> "set_channel",
     params |-> Params(NoneVal, NoneVal, StrVal("v99"), IntVal(1))],
    [command |-> "set_channel",
     params |-> Params(NoneVal, NoneVal, StrVal("v5"), NoneVal)],
    [command |-> "set_temp",
     params |-> Params(NoneVal, NoneVal, StrVal("v5"), IntVal(1))] }

CommandFridgeIds == FridgeIds \cup { "invalid_id" }

\* command.strip().lower()
StripLower(command) ==
  CASE command = " Toggle_Turbo " -> "toggle_turbo"
    [] OTHER -> command

\* not x, for x a str, an int or None
Not(x) ==
  \/ x.type = "None"
  \/ x.type = "str" /\ x.str = ""
  \/ x.type = "int" /\ x.int = 0

\* _log_command_to_influx: the record handed to write_data, with
\* str(v) for every key of params.
CommandRecord(fridge_id, command, params) ==
  [ fridge_id |-> fridge_id, command |-> command, timestamp |-> clock,
    fields |-> [ k \in { k \in ParamKeys : params[k].type # "None" } |->
                   Str(params[k]) ] ]

\* Mutant of Succeeded: success is set before the fridge is called and an
\* exception does not reset it.
Succeeded_Anyway(kind) == TRUE

\* success = True after the call; except Exception: success = False
Succeeded(kind) == kind = "None"

\* Mutant of Logs: the command is logged whether it succeeded or not.
Logs_Always(success) == TRUE

\* if success: _log_command_to_influx(...)
Logs(success) == success

\* if success: _log_command_to_influx; write_data stores the record unless
\* the client is not initialised or the write fails.  return success
Finish(success, fridge_id, command, params) ==
  /\ cmd_ret' = IF success THEN "True" ELSE "False"
  /\ IF Logs(success)
       THEN \E stored \in BOOLEAN :
              command_log' =
                IF stored
                  THEN Append(command_log,
                              CommandRecord(fridge_id, command, params))
                  ELSE command_log
       ELSE command_log' = command_log
  /\ UNCHANGED << focus, parked, reader, running >>

\* No method of the fridge is called.
NotCalled == UNCHANGED << instance, clock, floats, reported, ret >>

\* Mutant of Addressed: the command acts on whichever instance is at hand.
Addressed_Any(fridge_id) == TRUE

\* fridge = get_fridge_instance(fridge_id): the methods are called on the
\* instance registered under fridge_id.
Addressed(fridge_id) == fridge_id = focus

\* execute_command(fridge_id, command, params)
execute_command(fridge_id, command, params) ==
  IF fridge_id \notin DOMAIN fridges
    THEN /\ NotCalled
         /\ cmd_ret' = "False"
         /\ UNCHANGED << focus, parked, command_log, reader, running >>
    ELSE
      LET cmd == StripLower(command)
          done == Finish(Succeeded(ret'.kind), fridge_id, cmd, params)
          missing == NotCalled /\ Finish(FALSE, fridge_id, cmd, params)
      IN  /\ Addressed(fridge_id)
          /\ CASE cmd = "toggle_compressor" -> toggle_compressor /\ done
               [] cmd = "toggle_pulsetube" -> toggle_pulsetube /\ done
               [] cmd = "toggle_turbo" -> toggle_turbo /\ done
               [] cmd = "toggle_valve" ->
                    IF Not(params.valve_name) THEN missing
                    ELSE toggle_valve(params.valve_name.str) /\ done
               [] cmd = "toggle_heat_switch" ->
                    IF Not(params.heat_switch_name) THEN missing
                    ELSE toggle_heat_switch(params.heat_switch_name.str)
                           /\ done
               [] cmd = "set_channel" ->
                    IF params.channel.type = "None"
                         \/ params.value.type = "None"
                      THEN missing
                      ELSE set_channel(params.channel.str, params.value)
                             /\ done
               [] OTHER -> missing

\* The rows in the state logs of the fridges named, in total.
RECURSIVE StateRows(_, _)
StateRows(fs, ids) ==
  IF ids = { } THEN 0
  ELSE LET id == CHOOSE id \in ids : TRUE
       IN  Len(fs[id].state_log) + StateRows(fs, ids \ { id })

\* The step leaves the state logs of the fridges with n rows at most in
\* total, and fewer records than that in the command log.
CommandsWithin(n) ==
  /\ StateRows(fridges', DOMAIN fridges') <= n
  /\ Len(command_log') < n - 1

ExecuteCommand ==
  \E fridge_id \in CommandFridgeIds, call \in CommandCalls :
    execute_command(fridge_id, call.command, call.params)

CommandNext ==
  \/ Switch
  \/ ExecuteCommand /\ CommandsWithin(MaxLog)

CommandSpec == CommandInit /\ [][CommandNext]_vars

\* ------------------------------------------------------- fridge_reader
\* Total rows the state logs of the registered fridges reach under polling.
MaxReaderLog == 4

\* Names passed to set_channel on the polled fridges: a channel whose changes
\* to "0" and "1" are patterns of the table and whose changes to "2" are not,
\* and a name that is no channel.
ReaderChannels == { "pulsetube", "v99" }

\* What a caller passes to pop_all_alerts: a registered id, an id that is not
\* registered, or None (the default: all fridges).
PopIds == FridgeIds \cup { "invalid_id", "None" }

\* Mutant of Depth0: the oldest row (idx = 0 for idx = -1).
Depth0_Oldest(log) == log[1]

\* fridge.dict_state(0) reads get_state(0): the newest row of the state log.
Depth0(log) == log[Len(log)]

\* get_current_data(fridge_id) on the instance f registered under that id.
\* The state_message entry is generate_state_message(), which assigns nothing;
\* the snapshot keeps the entries read from the logs.
get_current_data(fridge_id, f) ==
  LET raw_state == Depth0(f.state_log)
      status_dict == IF f.status_log = << >> THEN { }
                     ELSE RowDict(f.status_log[Len(f.status_log)])
      last_pressures ==
        IF f.pressure_log = << >> THEN << >>
        ELSE LET last_entry == f.pressure_log[Len(f.pressure_log)]
             IN  [ i \in 1..Len(last_entry.p) |-> ParseE3(last_entry.p[i]) ]
  IN  [ fridge_id |-> fridge_id,
        timestamp |-> clock,
        channels |-> [ k \in { kv[1] : kv \in RowDict(raw_state) } |->
                         DictGet(RowDict(raw_state), k) ],
        sensor_status |-> status_dict,
        last_pressures_mbar |-> last_pressures ]

\* fridge.generate_alert_messages() on the instance f: the labels returned
\* and the instance afterwards.
Scanned(f) ==
  LET found == ScanFrom(Len(f.state_log), f.state_log, f.last_event_check_time)
  IN  [ events |-> [ k \in 1..Len(found) |-> found[k].label ],
        after |-> [ f EXCEPT
                      !.last_event_check_time =
                         NewWatermark(f.state_log, f.last_event_check_time),
                      !.reported =
                         [ i \in DOMAIN f.reported |->
                             IF \E k \in 1..Len(found) : found[k].index = i
                             THEN Min(f.reported[i] + 1, 2)
                             ELSE f.reported[i] ] ] ]

\* _latest_alerts[fridge_id] of the defaultdict, without creating the key
AlertsOf(alerts, fridge_id) ==
  IF fridge_id \in DOMAIN alerts THEN alerts[fridge_id] ELSE << >>

\* poll_all_fridges(): for every registered fridge, cache get_current_data
\* and append what generate_alert_messages returns to its alerts.
poll_all_fridges ==
  LET scan == [ id \in DOMAIN fridges |-> Scanned(fridges[id]) ]
      alerting == { id \in DOMAIN fridges : scan[id].events # << >> }
  IN  /\ latest_data' =
           [ id \in DOMAIN latest_data \cup DOMAIN fridges |->
               IF id \in DOMAIN fridges
               THEN get_current_data(id, fridges[id]) ELSE latest_data[id] ]
      /\ latest_alerts' =
           [ id \in DOMAIN latest_alerts \cup alerting |->
               IF id \in alerting
               THEN AlertsOf(latest_alerts, id) \o scan[id].events
               ELSE latest_alerts[id] ]
      /\ last_event_check_time' = scan[focus].after.last_event_check_time
      /\ reported' = scan[focus].after.reported
      /\ ret' = Returned("list", scan[focus].events)
      /\ parked' = [ id \in DOMAIN parked |-> scan[id].after ]
      /\ yielded' = [ id \in DOMAIN yielded |->
                        IF id \in DOMAIN fridges
                        THEN yielded[id] \o scan[id].events ELSE yielded[id] ]
      /\ polled' = TRUE
      /\ unpopped' = unpopped \cup DOMAIN fridges
      /\ UNCHANGED << state, sensors, pressures, state_log, status_log,
                      pressure_log, use_files, clock, floats, focus,
                      command_log, cmd_ret, pop_ret, popped, running >>

\* get_latest_data(fridge_id): _latest_data.get(fridge_id, {})
get_latest_data(fridge_id) ==
  IF fridge_id \in DOMAIN latest_data THEN latest_data[fridge_id] ELSE << >>

\* Mutant of Cleared: the list is returned and kept.
Cleared_Kept(alerts) == alerts

\* _latest_alerts[fid].clear()
Cleared(alerts) == << >>

\* pop_all_alerts(fridge_id): the alerts of one fridge (if it has an entry) or
\* of every fridge that has some, copied and cleared.
pop_all_alerts(fridge_id) ==
  LET result ==
        IF fridge_id # "None"
          THEN IF fridge_id \in DOMAIN latest_alerts
                 THEN (fridge_id :> latest_alerts[fridge_id])
                 ELSE << >>
          ELSE [ fid \in { fid \in DOMAIN latest_alerts :
                             latest_alerts[fid] # << >> } |->
                   latest_alerts[fid] ]
  IN  /\ pop_ret' = result
      /\ latest_alerts' =
           [ fid \in DOMAIN latest_alerts |->
               IF fid \in DOMAIN result THEN Cleared(latest_alerts[fid])
               ELSE latest_alerts[fid] ]
      /\ popped' = [ id \in DOMAIN popped |->
                       IF id \in DOMAIN result THEN popped[id] \o result[id]
                       ELSE popped[id] ]
      /\ polled' = FALSE
      /\ unpopped' = IF fridge_id = "None" THEN { }
                     ELSE unpopped \ { fridge_id }
      /\ UNCHANGED << instance, clock, floats, ret, reported, controller,
                      latest_data, yielded, running >>

\* The step leaves the state logs of the fridges with n rows at most in total.
RowsWithin(n) == StateRows(fridges', DOMAIN fridges') <= n

\* The registered fridges under set_channel calls, polls and pops.
ReaderNext ==
  \/ Tick
  \/ Switch
  \/ SetChannel(ReaderChannels) /\ Direct /\ RowsWithin(MaxReaderLog)
  \/ poll_all_fridges
  \/ \E fridge_id \in PopIds : pop_all_alerts(fridge_id)

ReaderSpec == CommandInit /\ [][ReaderNext]_vars

\* The registered fridges under commands, which call set_channel and the
\* toggles, and under scans.
IsolationNext ==
  \/ Switch
  \/ ExecuteCommand /\ CommandsWithin(MaxLog)
  \/ generate_alert_messages /\ Direct

IsolationSpec == CommandInit /\ [][IsolationNext]_vars

\* ------------------------------------------- calls taken step by step
\* set_channel and generate_alert_messages take no lock, and the server runs
\* its callbacks (the poll, the commands) on separate threads: the steps of a
\* set_channel call and of a scan of the same instance may alternate.
\* running.set.at is what the call has done last, running.scan.at = "loop"
\* while a scan has fixed its range and has not returned.

\* Rows the state log reaches when calls are taken step by step.
MaxRaceLog == 3

\* Names passed to the call taken step by step: a channel whose changes are
\* patterns of the table (pulsetube), one that moves the pressures (scroll1)
\* and a name that is no channel.
RaceChannels == { "pulsetube", "scroll1", "v99" }

\* Lines 436-471: the checks, self.state[channel] = val_str and the sensor
\* branches.  A call that raises or returns early has no further step.
set_channel_assign(channel, value) ==
  LET val_str == Str(value) IN
  /\ running.set.at = "-"
  /\ IF UnknownChannel(channel) THEN Rejected("KeyError") /\ UNCHANGED running
     ELSE IF InvalidValue(val_str)
            THEN Rejected("ValueError") /\ UNCHANGED running
     ELSE IF NoChange(channel, val_str)
            THEN /\ ret' = Returned("None", <<>>)
                 /\ UNCHANGED << instance, clock, floats, reported, running >>
     ELSE /\ state' = [state EXCEPT ![channel] = val_str]
          /\ sensors' = SensorsAfter(channel, val_str, sensors)
          /\ running' = [running EXCEPT
                           !.set = [at |-> "assign", channel |-> channel,
                                    val_str |-> val_str, now |-> 0]]
          /\ UNCHANGED << pressures, state_log, status_log, pressure_log,
                          last_event_check_time, use_files, clock, floats,
                          ret, reported >>

\* Lines 473-474: now = datetime.now(); self._log_state(now)
set_channel_log_state ==
  /\ running.set.at = "assign"
  /\ state_log' = Append(state_log, StateRow(clock, state))
  /\ reported' = Append(reported, 0)
  /\ running' = [running EXCEPT !.set.at = "log_state", !.set.now = clock]
  /\ UNCHANGED << state, sensors, pressures, status_log, pressure_log,
                  last_event_check_time, use_files, clock, floats, ret >>

\* Line 475: self._log_status(now)
set_channel_log_status ==
  /\ running.set.at = "log_state"
  /\ status_log' = Append(status_log, StatusRow(running.set.now, sensors))
  /\ running' = [running EXCEPT !.set.at = "log_status"]
  /\ UNCHANGED << state, sensors, pressures, state_log, pressure_log,
                  last_event_check_time, use_files, clock, floats, ret,
                  reported >>

\* Lines 477-483: the scroll1 / scroll2 / turbo1 branch
set_channel_pressures ==
  /\ running.set.at = "log_status"
  /\ pressures' = PressuresAfter(running.set.channel, running.set.val_str,
                                 pressures)
  /\ running' = [running EXCEPT !.set.at = "pressures"]
  /\ UNCHANGED << state, sensors, state_log, status_log, pressure_log,
                  last_event_check_time, use_files, clock, floats, ret,
                  reported >>

\* Line 484: self._log_pressures(now), and the call returns
set_channel_log_pressures ==
  /\ running.set.at = "pressures"
  /\ pressure_log' = Append(pressure_log,
                            PressureRow(running.set.now, pressures))
  /\ ret' = Returned("None", <<>>)
  /\ running' = [running EXCEPT !.set = Idle.set]
  /\ UNCHANGED << state, sensors, pressures, state_log, status_log,
                  last_event_check_time, use_files, clock, floats, reported >>

\* Line 283: range(len(self._state_log) - 1, -1, -1) is evaluated once, when
\* the loop starts.
scan_range ==
  /\ running.scan.at = "-"
  /\ running' = [running EXCEPT !.scan = [at |-> "loop", n |-> Len(state_log)]]
  /\ UNCHANGED << instance, clock, floats, ret, reported >>

\* Lines 284-307: the loop over the rows of the range (rows are only ever
\* appended and the watermark is assigned by the scan alone, so the loop reads
\* what it would read in one go), then the watermark, taken from
\* self._state_log[-1] as the log is by then, and the return.
scan_return ==
  LET n == running.scan.n
      found == ScanFrom(n, state_log, last_event_check_time)
      events == [ k \in 1..Len(found) |-> found[k].label ]
  IN  /\ running.scan.at = "loop"
      /\ last_event_check_time' =
           NewWatermark(state_log, last_event_check_time)
      /\ ret' = Returned("list", events)
      /\ reported' =
           [ i \in DOMAIN reported |->
               IF \E k \in 1..Len(found) : found[k].index = i
               THEN Min(reported[i] + 1, 2) ELSE reported[i] ]
      /\ running' = [running EXCEPT !.scan = Idle.scan]
      /\ UNCHANGED << state, sensors, pressures, state_log, status_log,
                      pressure_log, use_files, clock, floats >>

\* The steps are taken on the instance itself.
Alone == UNCHANGED << controller, reader >>

RaceNext ==
  \/ Tick
  \/ \E channel \in RaceChannels, value \in CmdValues :
       /\ set_channel_assign(channel, value)
       /\ Len(state_log) < MaxRaceLog
       /\ Alone
  \/ set_channel_log_state /\ Alone
  \/ set_channel_log_status /\ Alone
  \/ set_channel_pressures /\ Alone
  \/ set_channel_log_pressures /\ Alone
  \/ scan_range /\ Alone
  \/ scan_return /\ Alone

\* One instance that keeps its logs in memory, a set_channel call and a scan
\* at a time, their steps in any order.
RaceSpec == MemInit /\ [][RaceNext]_vars

\* ------------------------------------------------------------- claims
\* A set_channel call that passes both checks.
Accepted(c, v) == c \in Channels /\ Str(v) \in ValidValues

\* The (channel, new value) pairs in which row i of the state log differs from
\* row i - 1, read off the two rows channel by channel.
Changed(i) ==
  { cv \in Channels \X ValidValues :
      \E j \in 1..Len(state_log[i].items) :
        /\ state_log[i].items[j] = cv
        /\ state_log[i - 1].items[j] # cv }

PatternKeys == { m.key : m \in EVENT_MARKERS }

\* C1: set_channel(c, v) with str(v) equal to the current value of c is a
\* no-op: nothing is appended to the state, status or pressure log, and no
\* channel value, sensor reading or pressure changes.
C1_SameValueIsNoOp ==
  [][ \A c \in Channels, v \in CmdValues :
        (state[c] = Str(v) /\ set_channel(c, v))
          => /\ UNCHANGED << state, sensors, pressures >>
             /\ UNCHANGED << state_log, status_log, pressure_log >>
             /\ ret'.kind = "None" ]_vars

\* A call returned None although nothing was appended since construction.
C1_Witness == ret.kind = "None" /\ Len(state_log) = 1 /\ Len(status_log) = 1

\* C2: set_channel with an unknown channel raises KeyError, and with a known
\* channel and a value whose string form is not 0, 1 or 2 raises ValueError;
\* either way channels, sensors, pressures, the three logs and the watermark
\* are as before the call (so later calls see the instance as if the rejected
\* call had not been made).
C2_RejectedLeavesAllAsBefore ==
  [][ \A c \in CmdChannels, v \in CmdValues :
        (~Accepted(c, v) /\ set_channel(c, v))
          => /\ UNCHANGED instance
             /\ UNCHANGED reported
             /\ ret'.kind = IF c \notin Channels THEN "KeyError"
                            ELSE "ValueError" ]_vars

\* A call was rejected on an instance that already has a history.
C2_Witness == ret.kind = "ValueError" /\ Len(state_log) >= 2

\* C3: between calls the three logs have the same number of entries, and
\* entries at the same index carry the same date and time.
C3_LogsInStep ==
  /\ Len(state_log) = Len(status_log)
  /\ Len(status_log) = Len(pressure_log)
  /\ \A i \in 1..Len(state_log) :
       /\ state_log[i].time = status_log[i].time
       /\ state_log[i].time = pressure_log[i].time

\* C4: after set_channel(c, v) returns for a known channel c and v in
\* {0, 1, 2}, dict_state(0) has c equal to v, and it differs from dict_state(0)
\* just before the call in channel c only (in no channel when c already was v).
C4_ExactlyThatChannelChanged ==
  [][ \A c \in Channels, v \in CmdValues :
        (Accepted(c, v) /\ ret'.kind = "None" /\ set_channel(c, v))
          => LET before == dict_state(0).channels
                 after == (dict_state(0).channels)'
             IN  /\ DOMAIN before = Channels
                 /\ after = [ before EXCEPT ![c] = Str(v) ]
                 /\ state[c] # Str(v) => after # before ]_vars

\* A value-changing set_channel has returned.
C4_Witness ==
  /\ ret.kind = "None"
  /\ Len(state_log) >= 2
  /\ Cardinality(Changed(Len(state_log))) = 1

\* C5: the first generate_alert_messages call after a committed transition
\* whose diff is a key of the pattern table reports that transition (its label
\* is in the returned list, once for that transition), whatever the timing.
C5_MatchedTransitionReported ==
  [][ generate_alert_messages
        => \A i \in 2..Len(state_log) :
             (Changed(i) \in PatternKeys /\ reported[i] = 0)
               => /\ reported'[i] = 1
                  /\ \E k \in 1..Len(ret'.events) :
                       \E m \in EVENT_MARKERS :
                         m.key = Changed(i) /\ ret'.events[k] = m.label ]_vars

\* C6: no transition contributes a label to more than one
\* generate_alert_messages result.
C6_ReportedAtMostOnce == \A i \in 1..Len(reported) : reported[i] <= 1

\* A transition was reported once, and a later scan returned nothing.
C6_Witness ==
  /\ \E i \in 1..Len(reported) : reported[i] = 1
  /\ ret.kind = "list"
  /\ ret.events = << >>

\* C7: a generate_alert_messages call that follows another one, with no call
\* of a mutator in between, returns an empty list.
C7_SecondScanEmpty ==
  [][ (ret.kind = "list" /\ generate_alert_messages)
        => ret'.events = << >> ]_vars

\* The newest transition matches a pattern and was reported by a scan, and
\* the scan that followed (no row was appended since) returned nothing.
C7_Witness ==
  /\ ret.kind = "list"
  /\ ret.events = << >>
  /\ Len(state_log) >= 2
  /\ Changed(Len(state_log)) \in PatternKeys
  /\ reported[Len(state_log)] = 1

\* C8: the watermark never moves backward: every step leaves
\* _last_event_check_time greater than or equal to its previous value.
C8_WatermarkMonotonic ==
  [][ last_event_check_time' >= last_event_check_time ]_vars

\* The scan's loop reaches row i: no row from i to the newest is at or before
\* the watermark.
Examined(i) ==
  \A j \in i..Len(state_log) :
    ParseTime(state_log[j].time) > last_event_check_time

\* The rows a scan from the current state must report.
Matched == { i \in 2..Len(state_log) : Examined(i) /\ Changed(i) \in PatternKeys }

LabelOf(key) == (CHOOSE m \in EVENT_MARKERS : m.key = key).label

\* C9: generate_alert_messages emits a label for an examined transition if and
\* only if the set of (channel, new value) pairs that changed in it is exactly
\* a key of the pattern table (one pair more, one pair fewer or another value
\* emit nothing); a diff maps to one label at most, and the labels returned
\* are the matched keys' labels, one for each matched transition.
C9_ExactMatchOnly ==
  /\ \A m1 \in EVENT_MARKERS, m2 \in EVENT_MARKERS :
       m1.key = m2.key => m1.label = m2.label
  /\ [][ generate_alert_messages
           => /\ \A i \in 1..Len(state_log) :
                   (reported'[i] > reported[i]) <=> (i \in Matched)
              /\ Len(ret'.events) = Cardinality(Matched)
              /\ \A i \in Matched :
                   \E k \in 1..Len(ret'.events) :
                     ret'.events[k] = LabelOf(Changed(i))
              /\ \A k \in 1..Len(ret'.events) :
                   \E i \in Matched : ret'.events[k] = LabelOf(Changed(i)) ]_vars

\* A scan reported the exact match in row 2 and nothing for row 3, whose diff
\* is a key with one pair more.
C9_Witness ==
  /\ ret.kind = "list"
  /\ Len(ret.events) = 1
  /\ reported = << 0, 1, 0 >>
  /\ Cardinality(Changed(2)) >= 3
  /\ \E key \in PatternKeys :
       /\ key \subseteq Changed(3)
       /\ Cardinality(Changed(3)) = Cardinality(key) + 1
       /\ \A k2 \in PatternKeys : k2 # Changed(3)

\* C10: with file mirroring on, an accepted set_channel during which a file
\* write fails raises nothing and leaves channels, sensors, pressures and the
\* three logs exactly as a call whose writes succeed.
C10_MirrorFailureHarmless ==
  [][ \A c \in Channels, v \in CmdValues :
        (use_files /\ set_channel(c, v) /\ Accepted(c, v) /\ state[c] # Str(v))
          => Commit(c, Str(v), "none") ]_vars

\* C11: the state log is append-only and ordered by time: every step leaves
\* the entries already there as they are; the log has one entry after
\* construction, grows by one entry in a step that changes a channel value and
\* by none in any other step; entry times do not decrease with the index.
C11_StateLogAppendOnly ==
  /\ [](ret.kind = "__init__" => Len(state_log) = 1)
  /\ [](\A i \in 1..Len(state_log), j \in 1..Len(state_log) :
          i <= j => state_log[i].time <= state_log[j].time)
  /\ [][ /\ Len(state_log') >= Len(state_log)
         /\ SubSeq(state_log', 1, Len(state_log)) = state_log
         /\ Len(state_log') =
              Len(state_log) + (IF state' # state THEN 1 ELSE 0) ]_vars

\* The log has grown to three entries written in different seconds, and the
\* last call (a rejected one) added none.
C11_Witness ==
  /\ Len(state_log) = 3
  /\ state_log[1].time < state_log[3].time
  /\ ret.kind = "ValueError"

\* Depths a caller asks for: within the history, at its end and past it.
Depths == 0..(MaxLog + 2)

\* C12: get_state(depth) returns the entry depth places back from the newest
\* (0 = the newest), and for every depth at or past the history length it
\* returns, without error, what get_state(length - 1) returns: the oldest
\* entry.
C12_DepthClampsToOldest ==
  LET n == Len(state_log) IN
  /\ n >= 1
  /\ \A depth \in Depths :
       /\ depth < n => get_state(depth) = state_log[n - depth]
       /\ depth >= n => /\ get_state(depth) = get_state(n - 1)
                        /\ get_state(depth) = state_log[1]

\* A history of three different entries: depth 1 is the middle one, and the
\* depths 3 and 4 are past the end and give the oldest.
C12_Witness ==
  /\ Len(state_log) = 3
  /\ state_log[1] # state_log[2] /\ state_log[2] # state_log[3]
  /\ get_state(1) = state_log[2]
  /\ get_state(3) = state_log[1] /\ get_state(4) = state_log[1]

\* The rows of the state log that differ from the row before them.
Differing == { i \in 2..Len(state_log) : Changed(i) # {} }

\* C13: get_last_state_change returns an empty result when the state log has
\* fewer than two entries; otherwise it returns the (channel, new value) pairs
\* of the nearest pair of consecutive rows that differ, with the time of the
\* later row; right after an accepted set_channel(c, v) that changed c the
\* pairs are exactly {c: v}.
C13_LastChangeIsNearestDiff ==
  /\ [](Len(state_log) < 2 => get_last_state_change = NoChangeFound)
  /\ [](Differing # {} =>
          LET i == CHOOSE i \in Differing : \A j \in Differing : j <= i
          IN  get_last_state_change =
                [pairs |-> Changed(i), has_time |-> TRUE,
                 change_time |-> ParseTime(state_log[i].time)])
  /\ [][ \A c \in Channels, v \in CmdValues :
           (Accepted(c, v) /\ state[c] # Str(v) /\ ret'.kind = "None"
              /\ set_channel(c, v))
             => get_last_state_change'.pairs = { << c, Str(v) >> } ]_vars

\* The toggle calls and the channel each one acts on.
ToggleCalls ==
  { [op |-> "toggle_pulsetube", name |-> "pulsetube"],
    [op |-> "toggle_compressor", name |-> "compressor"],
    [op |-> "toggle_turbo", name |-> "turbo1"] }
  \cup { [op |-> "toggle_valve", name |-> n] :
           n \in { n \in ToggleNames \cap Channels : StartsWithV(n) } }
  \cup { [op |-> "toggle_heat_switch", name |-> n] :
           n \in { n \in ToggleNames \cap Channels : StartsWithHs(n) } }

\* The step is the toggle call t.
ToggleStep(t) ==
  CASE t.op = "toggle_pulsetube" -> toggle_pulsetube
    [] t.op = "toggle_compressor" -> toggle_compressor
    [] t.op = "toggle_turbo" -> toggle_turbo
    [] t.op = "toggle_valve" -> toggle_valve(t.name)
    [] t.op = "toggle_heat_switch" -> toggle_heat_switch(t.name)

\* C14: each toggle operation applied to a channel that is Off sets it to On,
\* and applied to a channel that is On sets it to Off, leaving the other
\* channels alone, and appends exactly one entry to each of the three logs.
C14_ToggleFlipsAndLogsOnce ==
  [][ \A t \in ToggleCalls :
        (state[t.name] \in { "0", "1" } /\ ToggleStep(t))
          => /\ state' = [ state EXCEPT
                             ![t.name] = IF state[t.name] = "0" THEN "1" ELSE "0" ]
             /\ Len(state_log') = Len(state_log) + 1
             /\ Len(status_log') = Len(status_log) + 1
             /\ Len(pressure_log') = Len(pressure_log) + 1
             /\ SubSeq(state_log', 1, Len(state_log)) = state_log
             /\ SubSeq(status_log', 1, Len(status_log)) = status_log
             /\ SubSeq(pressure_log', 1, Len(pressure_log)) = pressure_log ]_vars

\* C15 (as stated): a toggle operation applied to a channel whose value is
\* Transitional (2) takes that value for Off and sets the channel to On (1).
C15_ToggleFromTransitionalSetsOn ==
  [][ \A t \in ToggleCalls :
        (state[t.name] = "2" /\ ToggleStep(t)) => state'[t.name] = "1" ]_vars

\* C15 (amended): a toggle operation applied to a channel whose value is
\* Transitional (2) takes that value for On and sets the channel to Off (0),
\* leaving the other channels alone and appending a row to the state log.
C15_ToggleFromTransitionalSetsOff ==
  [][ \A t \in ToggleCalls :
        (state[t.name] = "2" /\ ToggleStep(t))
          => /\ state' = [ state EXCEPT ![t.name] = "0" ]
             /\ Len(state_log') = Len(state_log) + 1 ]_vars

\* The newest row of the state log records a channel of a toggle call going
\* from 2 to 0, and the call returned.
C15_Witness ==
  /\ Len(state_log) >= 2
  /\ ret.kind = "None"
  /\ \E t \in ToggleCalls :
       /\ Changed(Len(state_log)) = { << t.name, "0" >> }
       /\ << t.name, "2" >> \in RowDict(state_log[Len(state_log) - 1])

\* The part of a message for the pulse tube: the fifth of the status line.
PulsetubePart(message) == message.main[5]

\* C16: whenever the latest state snapshot has pulsetube On while compressor
\* is not On, the message generate_state_message returns shows the pulse tube
\* with the transitional glyph, while the stored pulsetube value is still On.
C16_PulsetubeShownTransitional ==
  LET last_state == dict_state(0).channels IN
  (ret.kind = "str" /\ last_state["pulsetube"] = "1"
     /\ last_state["compressor"] # "1")
    => /\ PulsetubePart(ret.events[1]) = << "yellow circle", "pt  " >>
       /\ state["pulsetube"] = "1"

\* A fresh instance after set_channel(pulsetube, 1) (set_channel(compressor, 0)
\* changes nothing there) has been rendered: the message has the transitional
\* glyph for the pulse tube.
C16_Witness ==
  /\ ret.kind = "str"
  /\ Len(state_log) = 2
  /\ Changed(2) = { << "pulsetube", "1" >> }
  /\ state["pulsetube"] = "1" /\ state["compressor"] = "0"
  /\ PulsetubePart(ret.events[1])[1] = "yellow circle"

\* C17: generate_state_message is display-only and stateless: a step that
\* returns a message changes no channel value, sensor, pressure, log entry or
\* watermark, and a render that follows a render with no call of a mutator in
\* between returns the same message.
C17_RenderChangesNothing ==
  [][ ret'.kind = "str"
        => /\ UNCHANGED instance
           /\ UNCHANGED reported
           /\ ret.kind = "str" => ret'.events = ret.events ]_vars

\* A render on an instance with a history of three rows, the newest of them
\* not yet scanned: the message is that of the state, the watermark is where
\* it was.
C17_Witness ==
  /\ ret.kind = "str"
  /\ Len(state_log) = 3
  /\ ret.events = << StateMessage >>
  /\ last_event_check_time < ParseTime(state_log[3].time)

\* The change recorded in row i of the state log: one (channel, value) pair.
ChangeAt(i) == CHOOSE cv \in Changed(i) : TRUE

\* The pressures the instance held when row i was written: the effect of the
\* changes of rows 2..i on the pressures of construction.
RECURSIVE PressuresAt(_)
PressuresAt(i) ==
  IF i <= 1 THEN InitPressures
  ELSE PressuresAfter(ChangeAt(i)[1], ChangeAt(i)[2], PressuresAt(i - 1))

\* Row i records pump c going from Off to On / from On to Off.
SwitchedOn(c, i) ==
  Changed(i) = { << c, "1" >> } /\ << c, "0" >> \in RowDict(state_log[i - 1])

SwitchedOff(c, i) ==
  Changed(i) = { << c, "0" >> } /\ << c, "1" >> \in RowDict(state_log[i - 1])

\* Rows i - 1 and i record pump c going from Off to On and back to Off.
OnOffPair(i) ==
  \E c \in PumpChannels : SwitchedOn(c, i - 1) /\ SwitchedOff(c, i)

\* A logged reading divided by 10^k
Shifted(reading, k) == [reading EXCEPT !.exp = reading.exp - k]

SixCommands ==
  { "toggle_compressor", "toggle_pulsetube", "toggle_turbo", "toggle_valve",
    "toggle_heat_switch", "set_channel" }

Lowered(command) ==
  IF command = " Toggle_Turbo " THEN "toggle_turbo" ELSE command

Present(x) == x.type # "None" /\ x # StrVal("")

RequiredPresent(command, params) ==
  /\ command = "toggle_valve" => Present(params.valve_name)
  /\ command = "toggle_heat_switch" => Present(params.heat_switch_name)
  /\ command = "set_channel" =>
       Present(params.channel) /\ params.value.type # "None"

Contents(f) ==
  [ state |-> f.state, sensors |-> f.sensors, pressures |-> f.pressures,
    state_log |-> f.state_log, status_log |-> f.status_log,
    pressure_log |-> f.pressure_log ]

C20_FalseChangesNothing ==
  [][ (ExecuteCommand /\ cmd_ret' = "False")
        => /\ DOMAIN fridges' = DOMAIN fridges
           /\ \A id \in DOMAIN fridges :
                Contents(fridges'[id]) = Contents(fridges[id])
           /\ command_log' = command_log ]_vars

\* A call that the fridge rejected has returned False, after commands that
\* changed a fridge and were logged.
C20_Witness ==
  /\ cmd_ret = "False"
  /\ ret.kind \in { "KeyError", "ValueError" }
  /\ command_log # << >>
  /\ \E id \in DOMAIN fridges : Len(fridges[id].state_log) > 1

\* C24: the channel set and its ordering are fixed at construction: in every
\* reachable state the live state holds exactly the 13 channel names, every
\* snapshot in the state log lists those 13 names in the order of
\* construction, and every channel value, live or logged, is 0, 1 or 2.
ChannelNames ==
  << "scroll1", "scroll2", "turbo1", "compressor", "pulsetube", "ext",
     "v5", "v6", "v7", "v9", "v13", "hs-still", "hs-mc" >>

C24_ChannelShapeFixed ==
  /\ DOMAIN state = { ChannelNames[i] : i \in 1..13 }
  /\ \A c \in DOMAIN state : state[c] \in { "0", "1", "2" }
  /\ \A n \in 1..Len(state_log) :
       /\ Len(state_log[n].items) = 13
       /\ \A i \in 1..13 :
            /\ state_log[n].items[i][1] = ChannelNames[i]
            /\ state_log[n].items[i][2] \in { "0", "1", "2" }

\* The log has grown to its cap, the channels hold each of the three values,
\* and a call has been rejected on the way.
C24_Witness ==
  /\ Len(state_log) = MaxLog
  /\ \A v \in { "0", "1", "2" } : \E c \in DOMAIN state : state[c] = v
  /\ ret.kind = "KeyError"

\* C25: an initial snapshot is seeded at construction, so in every reachable
\* state get_status returns a status entry (never the absent value) and
\* get_last_pressures returns exactly 6 readings (never the absent value).
C25_LatestAlwaysPresent ==
  /\ get_status.some
  /\ get_status.row \in { status_log[i] : i \in DOMAIN status_log }
  /\ get_last_pressures.some
  /\ Len(get_last_pressures.values) = 6

\* A mirrored write has failed, so the status and pressure logs are shorter
\* than the state log; the queries still answer.
C25_Witness ==
  /\ ret.kind = "OSError"
  /\ Len(status_log) < Len(state_log)
  /\ Len(pressure_log) < Len(state_log)
  /\ get_status.some
  /\ get_last_pressures.some

\* C26: in every reachable state the derived sensors are within their bounds
\* (tenths of a degree: mixing chamber 0.1..300.0, still 1.0..300.0, compressor
\* water in and out 15.0..25.0); switching the pulse tube On lowers the mixing
\* chamber and still temperatures by 50 down to their floors, switching it Off
\* raises them by 10 up to their cap; switching the compressor On lowers both
\* water temperatures by 1 down to the floor, switching it Off raises them by
\* 1 up to the cap.
Lowered2(t, delta, floor) == IF t - delta < floor THEN floor ELSE t - delta

Raised2(t, delta, cap) == IF t + delta > cap THEN cap ELSE t + delta

Becomes(c, v) == state[c] # v /\ state'[c] = v

GlyphOf(v) ==
  CASE v = "1" -> "green circle"
    [] v = "2" -> "yellow circle"
    [] OTHER -> "white circle"

TurboPart(message) == message.main[3]

AtSpeed == status_log[Len(status_log)].items[6] = << "tc400setspdatt", 1 >>

C28_TurboShownTransitional ==
  ret.kind = "str"
    => TurboPart(ret.events[1]) =
         << IF (state["turbo1"] = "1") # AtSpeed THEN "yellow circle"
            ELSE GlyphOf(state["turbo1"]),
            "tur1" >>

\* The turbo has been switched on and the instance rendered: the stored value
\* is On, the latest status snapshot says not at speed, the glyph is the
\* transitional one.
C28_Witness ==
  /\ ret.kind = "str"
  /\ state["turbo1"] = "1"
  /\ ~AtSpeed
  /\ TurboPart(ret.events[1])[1] = "yellow circle"

\* C30: toggle_valve raises KeyError for every name that is not a channel or
\* does not start with 'v', and toggle_heat_switch raises KeyError for every
\* name that is not a channel or does not start with 'hs' (a known channel of
\* another kind, such as pulsetube, included); no channel, sensor, pressure
\* or log changes in these calls.
Valves == { "v5", "v6", "v7", "v9", "v13" }

HeatSwitches == { "hs-still", "hs-mc" }

C30_ToggleRejectsOtherKinds ==
  [][ \A name \in ToggleNames :
        /\ (name \notin Valves /\ toggle_valve(name))
             => /\ ret'.kind = "KeyError"
                /\ UNCHANGED << state, sensors, pressures >>
                /\ UNCHANGED << state_log, status_log, pressure_log >>
        /\ (name \notin HeatSwitches /\ toggle_heat_switch(name))
             => /\ ret'.kind = "KeyError"
                /\ UNCHANGED << state, sensors, pressures >>
                /\ UNCHANGED << state_log, status_log, pressure_log >>
    ]_vars

\* A toggle was rejected on an instance whose valve and heat switch had been
\* toggled before.
C30_Witness ==
  /\ ret.kind = "KeyError"
  /\ Len(state_log) = 3
  /\ state["v5"] = "1"
  /\ state["hs-mc"] = "1"

\* C22: the log row format round-trips: re-parsing the rows a write has
\* appended (dict_state for the channel row, key/value pairing for the status
\* row, get_last_pressures for the pressure row) gives the timestamp, the
\* channel values, the sensor values and the six pressures that were live at
\* the write, both for the rows seeded at construction and for the rows of an
\* accepted set_channel.
InThousandths(sn) ==
  { << k, IF IsFloat(k) THEN sn[k] * 100 ELSE sn[k] >> : k \in DOMAIN sn }

AsFloat(reading) == [m |-> reading.m, e |-> reading.e]

ReparsedTime == dict_state(0).datetime

ReparsedChannels == dict_state(0).channels

ReparsedSensors == StatusDict(get_status)

ReparsedPressures ==
  [ i \in 1..Len(get_last_pressures.values) |->
      AsFloat(get_last_pressures.values[i]) ]

C22_RowsRoundTrip ==
  /\ [](ret.kind = "__init__"
          => /\ ReparsedTime = last_event_check_time
             /\ ReparsedChannels = state
             /\ ReparsedSensors = InThousandths(sensors)
             /\ ReparsedPressures = pressures)
  /\ [][ Len(state_log') = Len(state_log) + 1
           => /\ ReparsedTime' = clock'
              /\ ReparsedChannels' = state'
              /\ ReparsedSensors' = InThousandths(sensors')
              /\ ReparsedPressures' = pressures' ]_vars

\* C21: after poll_all_fridges returns, get_latest_data(id) of every registered
\* fridge is a snapshot whose fridge_id is id and whose channels are that
\* fridge's current channel values; for a fridge whose generate_alert_messages
\* returned an empty list, the poll leaves the accumulated alerts as they were.
C21_PollCachesCurrentData ==
  [][ poll_all_fridges
        => \A id \in DOMAIN fridges' :
             /\ get_latest_data(id)'.fridge_id = id
             /\ get_latest_data(id)'.channels = fridges'[id].state
             /\ yielded'[id] = yielded[id]
                  => /\ AlertsOf(latest_alerts', id) = AlertsOf(latest_alerts, id)
                     /\ (id \in DOMAIN latest_alerts')
                          = (id \in DOMAIN latest_alerts) ]_vars

\* A poll whose scan of the fridge in focus returned nothing has cached that
\* fridge's changed channels and kept the alert accumulated by an earlier poll.
C21_Witness ==
  /\ polled
  /\ ret = Returned("list", << >>)
  /\ AlertsOf(latest_alerts, focus) # << >>
  /\ DOMAIN latest_data = FridgeIds
  /\ latest_data[focus].channels["pulsetube"] = "1"
  /\ latest_data[focus].channels = state

\* A pop_all_alerts call that covers the fridge: pop_all_alerts(id) or
\* pop_all_alerts().
PopCovering(id) == pop_all_alerts(id) \/ pop_all_alerts("None")

\* Any pop_all_alerts call.
Pop == \E fridge_id \in PopIds : pop_all_alerts(fridge_id)

\* The call returned no alert of any fridge.
NoAlerts(result) == \A id \in DOMAIN result : result[id] = << >>

\* The labels the polls took from a fridge's generate_alert_messages are, in
\* order, the ones already returned by pops followed by the ones waiting; a
\* pop that covers the fridge returns all that wait.
NoneLostNoneTwice ==
  /\ [](\A id \in FridgeIds :
          popped[id] \o AlertsOf(latest_alerts, id) = yielded[id])
  /\ [][ \A id \in FridgeIds :
           PopCovering(id)
             => /\ popped'[id] = yielded[id]
                /\ AlertsOf(pop_ret', id) = AlertsOf(latest_alerts, id) ]_vars

\* C29 as stated: every label a fridge's generate_alert_messages returned
\* during a poll is returned by exactly one later pop_all_alerts call covering
\* that fridge, and a pop_all_alerts call with no poll since the previous pop
\* returns no alerts.
C29_PopAfterAnyPopEmpty ==
  /\ NoneLostNoneTwice
  /\ [][ (Pop /\ ~polled) => NoAlerts(pop_ret') ]_vars

\* C29 amended: every label a fridge's generate_alert_messages returned during
\* a poll is returned by exactly one later pop_all_alerts call covering that
\* fridge, and a pop_all_alerts call covering a fridge with no poll since the
\* previous pop that covered that fridge returns no alerts for it.
C29_PopAfterCoveringPopEmpty ==
  /\ NoneLostNoneTwice
  /\ [][ \A id \in FridgeIds :
           (PopCovering(id) /\ id \notin unpopped)
             => AlertsOf(pop_ret', id) = << >> ]_vars

\* The polls yielded two labels for one fridge, pops covering it returned
\* both, and a pop of that fridge with no poll since returned an empty list.
C29_Witness ==
  \E id \in FridgeIds :
    /\ Len(yielded[id]) = 2
    /\ popped[id] = yielded[id]
    /\ id \notin unpopped
    /\ ~polled
    /\ id \in DOMAIN latest_alerts
    /\ pop_ret = (id :> << >>)

\* The scan returns in this step.
ScanReturns == running.scan.at = "loop" /\ running'.scan.at = "-"

\* C23: when a scan runs interleaved with a set_channel call on the same
\* instance, it advances the watermark only to the timestamp of the newest
\* snapshot it examined (the newest row of the range its loop went through),
\* so a row appended meanwhile with a later timestamp stays above the
\* watermark, for a later scan to examine.
C23_WatermarkIsNewestExamined ==
  [][ ScanReturns
        => LET n == running.scan.n IN
           /\ last_event_check_time' = ParseTime(state_log[n].time)
           /\ \A i \in (n + 1)..Len(state_log) :
                ParseTime(state_log[i].time) > ParseTime(state_log[n].time)
                  => ~AlreadyChecked(ParseTime(state_log[i].time),
                                     last_event_check_time') ]_vars

\* C27: in an accepted set_channel call nothing is derived once a snapshot of
\* the call has been appended: no later step of the call changes the sensors
\* or the pressures.
C27_DerivedBeforeAppended ==
  [][ running.set.at \in { "log_state", "log_status", "pressures" }
        => sensors' = sensors /\ pressures' = pressures ]_vars

\* C31: every row of the state log but the first differs from the row before
\* it in the value of exactly one channel, so get_last_state_change finds its
\* change at the most recent pair of rows.
C31_OneChangePerRow ==
  /\ \A i \in 2..Len(state_log) : Cardinality(Changed(i)) = 1
  /\ Len(state_log) >= 2
       => get_last_state_change =
            [pairs |-> Changed(Len(state_log)), has_time |-> TRUE,
             change_time |-> ParseTime(state_log[Len(state_log)].time)]

\* C32: through set_channel and the toggles, the only labels
\* generate_alert_messages returns are "Pulsetube manual start" and
\* "Pulsetube manual stop".
C32_OnlyPulsetubeLabels ==
  ret.kind = "list"
    => \A k \in 1..Len(ret.events) :
         ret.events[k] \in { "Pulsetube manual start", "Pulsetube manual stop" }

\* A scan returned one label, on a log in which the pulse tube changed and a
\* heat switch named in the cooldown pattern was set to 1 on its own.
C32_Witness ==
  /\ ret.kind = "list"
  /\ Len(ret.events) = 1
  /\ \E i \in 2..Len(state_log) : Changed(i) = { << "hs-mc", "1" >> }
  /\ \E i \in 2..Len(state_log) : Changed(i) \in PatternKeys

\* C33: the turbo at-speed flag tc400setspdatt is 0 in every reachable state,
\* in the sensors and in every status snapshot, so generate_state_message
\* renders a turbo1 stored as On as transitional and never renders turbo1 as
\* On.
C33_TurboNeverAtSpeed ==
  /\ sensors["tc400setspdatt"] = 0
  /\ \A i \in 1..Len(status_log) :
       status_log[i].items[6] = << "tc400setspdatt", 0 >>
  /\ ret.kind = "str"
       => /\ TurboPart(ret.events[1])[1] # "green circle"
          /\ state["turbo1"] = "1"
               => TurboPart(ret.events[1])[1] = "yellow circle"

\* The turbo was set twice and is stored as On, and the instance rendered.
C33_Witness ==
  /\ ret.kind = "str"
  /\ state["turbo1"] = "1"
  /\ Len(state_log) >= 3
  /\ \A i \in 2..Len(state_log) : \E v \in ValidValues :
       Changed(i) = { << "turbo1", v >> }
  /\ TurboPart(ret.events[1])[1] = "yellow circle"

\* C34: after construction and after every set_channel or toggle call that
\* returns, the newest state row holds the live channel values, the newest
\* status row the live sensor values and the newest pressure row the live
\* pressures, each as the log writes them.
C34_LogsHoldLiveValues ==
  ret.kind \in { "__init__", "None" }
    => /\ state_log[Len(state_log)].items = StateRow(clock, state).items
       /\ status_log[Len(status_log)].items = StatusRow(clock, sensors).items
       /\ pressure_log[Len(pressure_log)].p = PressureRow(clock, pressures).p

\* The channels with a sensor branch in set_channel.
SensorChannels == { "pulsetube", "compressor", "turbo1" }

\* C35: an accepted set_channel on ext, a valve or a heat switch changes no
\* sensor reading and no pressure; only pulsetube, compressor and turbo1
\* transitions can change a sensor reading, and only scroll1, scroll2 and
\* turbo1 transitions can change the pressures.
C35_DerivationByChannel ==
  [][ \A c \in Channels, v \in CmdValues :
        (Accepted(c, v) /\ state[c] # Str(v) /\ set_channel(c, v))
          => /\ c \notin SensorChannels => sensors' = sensors
             /\ c \notin PumpChannels => pressures' = pressures
             /\ c \in { "ext" } \cup Valves \cup HeatSwitches
                  => /\ sensors' = sensors
                     /\ pressures' = pressures
                     /\ status_log'[Len(status_log')].items
                          = status_log[Len(status_log)].items
                     /\ pressure_log'[Len(pressure_log')].p
                          = pressure_log[Len(pressure_log)].p ]_vars

\* After a pump was switched on, a valve was set: the newest row differs in
\* the valve and the pressures are the ones the pump left.
C35_Witness ==
  /\ Len(state_log) = 3
  /\ Changed(2) = { << "scroll1", "1" >> }
  /\ Changed(3) = { << "v5", "1" >> }
  /\ pressures # InitPressures
  /\ pressure_log[3].p = pressure_log[2].p
  /\ sensors = InitSensors

\* No channel was ever set to the Transitional value: every row of the state
\* log holds the values 0 and 1 only.
OnlyOnOff ==
  \A i \in 1..Len(state_log) : \A j \in 1..Len(state_log[i].items) :
    state_log[i].items[j][2] \in { "0", "1" }

\* The number of channels among scroll1, scroll2, turbo1 that are On.
PumpsOn == Cardinality({ c \in PumpChannels : state[c] = "1" })

\* 1e-3 divided by 10, k times over, in floating point.
RECURSIVE Tenth(_)
Tenth(k) == IF k = 0 THEN InitPressures[1] ELSE Div10(Tenth(k - 1))

RECURSIVE NewestFirst(_)
NewestFirst(S) ==
  IF S = { } THEN << >>
  ELSE LET j == CHOOSE j \in S : \A i \in S : i <= j
       IN  << LabelOf(Changed(j)) >> \o NewestFirst(S \ { j })

\* C38: generate_alert_messages returns its labels newest first: the list is
\* made of the labels of the transitions the call reports, in descending
\* order of their state-log index.
C38_LabelsNewestFirst ==
  [][ generate_alert_messages
        => ret'.events =
             NewestFirst({ i \in DOMAIN reported : reported'[i] > reported[i] })
    ]_vars

\* One scan reported the pulse tube's start (row 2) and its stop (row 3): the
\* stop comes first in the list.
C38_Witness ==
  /\ Len(state_log) = 3
  /\ Changed(2) = { << "pulsetube", "1" >> }
  /\ Changed(3) = { << "pulsetube", "0" >> }
  /\ reported = << 0, 1, 1 >>
  /\ ret = Returned("list", << "Pulsetube manual stop", "Pulsetube manual start" >>)

\* C39: an operation applied to one fridge leaves every other registered
\* fridge as it was (channels, sensors, pressures, logs and watermark):
\* execute_command changes no fridge but the one it is addressed to, and
\* set_channel, a toggle or generate_alert_messages called on an instance
\* changes no other instance.
C39_FridgesIsolated ==
  [][ /\ DOMAIN fridges' = DOMAIN fridges
      /\ \A id \in DOMAIN fridges :
           fridges'[id] # fridges[id]
             => /\ \A fridge_id \in CommandFridgeIds, call \in CommandCalls :
                     execute_command(fridge_id, call.command, call.params)
                       => fridge_id = id
                /\ (SetChannel(CmdChannels) \/ Toggle
                      \/ generate_alert_messages) => focus = id ]_vars

\* A command switched on the pulse tube of fridge_2 and a scan of fridge_2
\* moved its watermark back to the whole second: fridge_1 is as constructed,
\* its watermark included.
C39_Witness ==
  /\ focus = "fridge_2"
  /\ state["pulsetube"] = "1"
  /\ Len(state_log) = 2
  /\ ret.kind = "list"
  /\ clock = 1
  /\ last_event_check_time = 0
  /\ \E i \in DOMAIN command_log : command_log[i].fridge_id = "fridge_2"
  /\ parked["fridge_1"].state = InitState
  /\ parked["fridge_1"].sensors = InitSensors
  /\ Len(parked["fridge_1"].state_log) = 1
  /\ parked["fridge_1"].last_event_check_time = 1

====
